---- MODULE Spec2Model ----
(***************************************************************************)
(* Model of the diff-record parser, the name interner, the FileNamesLoader *)
(* flush protocol and the working-directory synthesizer of GitQlient       *)
(* (src/app/git.cpp).                                                      *)
(*                                                                         *)
(* A QString is a sequence of one-character strings; positions in the      *)
(* code are 0-based, so character i of the code is s[i + 1] here.  Table   *)
(* indices (mDirNames, mFileNames) are stored 0-based, as the code stores  *)
(* them.                                                                   *)
(***************************************************************************)
EXTENDS Integers, Sequences, FiniteSets, TLC

(***************************************************************************)
(* Bounds of the model.                                                    *)
(***************************************************************************)
\* lines of the text handed to insertNewFiles
MaxLines == 3
\* lines of each of workingDirInfo.diffIndex and workingDirInfo.diffIndexCached
MaxWipLines == 2
\* untracked paths in workingDirInfo.otherFiles
MaxOthers == 1
\* appendFileName and clearFileNames calls a caller of the interner makes
MaxCalls == 3
\* lines of the diff-tree output of a merge handed to insertNewFiles
MaxMergeLines == 5
\* records of the log stream handed to processRevision
MaxRecords == 3
\* records of the text of a parse session that runs beside another
MaxSessionCalls == 2

(***************************************************************************)
(* Fixed offsets of the raw diff-tree line used by the parser.             *)
(***************************************************************************)
StatusOffset == 97
TabOffset == 98
PathOffset == 99
NewlineSkip == 99

TAB == "\t"
NL == "\n"
NUL == "NUL"
\* the outcome "the build stops" of a read the code does not guard
ABORT == "ABORT"

\* what a character read at or past the end of a QString may produce: the
\* terminator, any character lying behind the buffer, or an assertion failure
JunkChars == {NUL, TAB, ":", "R", ABORT}

(***************************************************************************)
(* QString operations, as Qt computes them.                                *)
(***************************************************************************)
Min(S) == CHOOSE x \in S : \A y \in S : x <= y

Max(S) == CHOOSE x \in S : \A y \in S : x >= y

\* QString::indexOf(ch, from): first position >= from holding ch, or -1
IndexOf(s, ch, from) ==
    LET hits == {i \in 0..(Len(s) - 1) : i >= from /\ s[i + 1] = ch}
    IN IF hits = {} THEN -1 ELSE Min(hits)

\* QString::lastIndexOf(ch): last position holding ch, or -1
LastIndexOf(s, ch) ==
    LET hits == {i \in 0..(Len(s) - 1) : s[i + 1] = ch}
    IN IF hits = {} THEN -1 ELSE Max(hits)

\* QString::mid(pos): the characters from pos on; empty when pos is past the end
MidFrom(s, pos) ==
    IF pos >= Len(s) THEN <<>> ELSE SubSeq(s, pos + 1, Len(s))

\* QString::mid(pos, n): n characters from pos, or all that are left
Mid(s, pos, n) ==
    IF pos >= Len(s) THEN <<>>
    ELSE IF n < 0 \/ pos + n > Len(s) THEN SubSeq(s, pos + 1, Len(s))
    ELSE SubSeq(s, pos + 1, pos + n)

\* QString::left(n)
Left(s, n) == IF n >= Len(s) THEN s ELSE SubSeq(s, 1, n)

\* QString::section(sep, -1): the last field, the whole string without a sep
SectionLast(s, sep) == MidFrom(s, LastIndexOf(s, sep) + 1)

\* QString::split(sep, QString::SkipEmptyParts)
SplitSkipEmpty(s, sep) ==
    LET cuts == {i \in 1..Len(s) : s[i] = sep} \cup {0, Len(s) + 1}
        next(i) == Min({j \in cuts : j > i})
        starts == {i \in cuts : i <= Len(s) /\ next(i) > i + 1}
        RECURSIVE fields(_)
        fields(S) == IF S = {} THEN <<>>
                     ELSE LET i == Min(S)
                          IN <<SubSeq(s, i + 1, next(i) - 1)>> \o fields(S \ {i})
    IN fields(starts)

DigitChars == <<"0", "1", "2", "3", "4", "5", "6", "7", "8", "9">>

IsDigit(ch) == \E d \in 1..10 : DigitChars[d] = ch

DigitValue(ch) == (CHOOSE d \in 1..10 : DigitChars[d] = ch) - 1

\* QString::toInt(): the decimal value of a string of digits, 0 when the
\* conversion fails (an empty string, a character that is no digit)
ToInt(s) ==
    LET RECURSIVE val(_)
        val(n) == IF n = 0 THEN 0 ELSE 10 * val(n - 1) + DigitValue(s[n])
    IN IF s # <<>> /\ \A i \in 1..Len(s) : IsDigit(s[i]) THEN val(Len(s)) ELSE 0

\* QString::number(n) for n >= 0
Number(n) ==
    LET RECURSIVE digits(_)
        digits(k) == IF k < 10 THEN <<DigitChars[k + 1]>>
                     ELSE digits(k \div 10) \o <<DigitChars[(k % 10) + 1]>>
    IN digits(n)

\* A character read at position i without a bounds check (operator[] const,
\* QString::at): the character when i is inside the string, otherwise any
\* of the outcomes of an unguarded read.
ReadChar(s, i) == IF i >= 0 /\ i < Len(s) THEN {s[i + 1]} ELSE JunkChars

IsOutOfBounds(s, i) == ~(i >= 0 /\ i < Len(s))

(***************************************************************************)
(* RevisionFile.  pathsIdx packs the directory indices of all entries      *)
(* followed by their file-name indices (the layout flushFileNames writes); *)
(* a status is the set of the StatusFlag bits that are set in it.          *)
(***************************************************************************)
MODIFIED == "MODIFIED"
DELETED == "DELETED"
\* RevisionFile::NEW (NEW is a reserved word of TLA+)
NEW_ == "NEW"
UNKNOWN == "UNKNOWN"
IN_INDEX == "IN_INDEX"
CONFLICT == "CONFLICT"

EmptyRevisionFile ==
    [pathsIdx |-> <<>>, mergeParent |-> <<>>, status |-> <<>>,
     extStatus |-> <<>>, onlyModified |-> TRUE]

count(rf) == Len(rf.pathsIdx) \div 2

dirAt(rf, i) == rf.pathsIdx[i + 1]

nameAt(rf, i) == rf.pathsIdx[count(rf) + i + 1]

\* RevisionFile::setStatus(const QString &): the status of a raw status letter
setStatus(rf, ch) ==
    CASE ch \in {"M", "T"} -> [rf EXCEPT !.status = Append(@, {MODIFIED})]
      [] ch = "U" -> [rf EXCEPT !.status = Append(@, {MODIFIED, CONFLICT}),
                                !.onlyModified = FALSE]
      [] ch = "D" -> [rf EXCEPT !.status = Append(@, {DELETED}),
                                !.onlyModified = FALSE]
      [] ch = "A" -> [rf EXCEPT !.status = Append(@, {NEW_}),
                                !.onlyModified = FALSE]
      [] ch = "?" -> [rf EXCEPT !.status = Append(@, {UNKNOWN}),
                                !.onlyModified = FALSE]
      [] OTHER -> [rf EXCEPT !.status = Append(@, {MODIFIED})]

\* RevisionFile::setStatus(StatusFlag)
setStatusFlag(rf, flag) == [rf EXCEPT !.status = Append(@, {flag})]

\* RevisionFile::appendStatus(pos, flag): ors the flag onto an entry's status
appendStatus(rf, pos, flag) == [rf EXCEPT !.status[pos + 1] = @ \cup {flag}]

\* RevisionFile::appendExtStatus: extStatus is resized to the number of
\* statuses and its last element set
appendExtStatus(rf, text) ==
    [rf EXCEPT !.extStatus =
        [i \in 1..Len(rf.status) |->
            IF i = Len(rf.status) THEN text
            ELSE IF i <= Len(rf.extStatus) THEN rf.extStatus[i] ELSE <<>>]]

setOnlyModified(rf, b) == [rf EXCEPT !.onlyModified = b]

\* RevisionFile::statusCmp(idx, flag): the outcomes of the comparison; the
\* status vector is read only when onlyModified is off, and reading it past
\* its end is an unguarded read
statusCmp(rf, idx, flag) ==
    IF rf.onlyModified THEN {[abort |-> FALSE, value |-> flag = MODIFIED]}
    ELSE IF idx < Len(rf.status)
         THEN {[abort |-> FALSE, value |-> flag \in rf.status[idx + 1]]}
         ELSE {[abort |-> FALSE, value |-> TRUE], [abort |-> FALSE, value |-> FALSE],
               [abort |-> TRUE, value |-> FALSE]}

(***************************************************************************)
(* The state the member functions work on, as one record:                  *)
(*   dirNames, fileNames, dirMap, fileMap  the interner tables and maps    *)
(*   files    the RevisionFile objects, by the name of the local variable  *)
(*   fl       the FileNamesLoader: bound RevisionFile and buffered indices *)
(*   oobRead  a character was read at or past the end of its string        *)
(*   oobStatus statusCmp was given an index that is no entry of the file   *)
(*   aborted  an unguarded read stopped the program                        *)
(*   log      the appendFileName and clearFileNames calls made so far      *)
(***************************************************************************)
NoFile == "nullptr"

EmptyMap == [s \in {} |-> 0]

EmptyLoader == [rf |-> NoFile, rfDirs |-> <<>>, rfNames |-> <<>>]

Put(map, key, val) == [k \in (DOMAIN map) \cup {key} |-> IF k = key THEN val ELSE map[k]]

Abort(c) == [c EXCEPT !.aborted = TRUE]

MarkRead(c, s, i) == IF IsOutOfBounds(s, i) THEN [c EXCEPT !.oobRead = TRUE] ELSE c

\* flushFileNames leaving fl.rf as it is (without fl.rf = nullptr)
flushFileNamesKeepsBinding(c) ==
    IF c.fl.rf = NoFile THEN c
    ELSE [c EXCEPT !.files[c.fl.rf].pathsIdx = c.fl.rfDirs \o c.fl.rfNames,
                   !.fl = [EmptyLoader EXCEPT !.rf = c.fl.rf]]

flushFileNames(c) ==
    IF c.fl.rf = NoFile THEN c
    ELSE [c EXCEPT !.files[c.fl.rf].pathsIdx = c.fl.rfDirs \o c.fl.rfNames,
                   !.fl = EmptyLoader]

\* the call history: what a call was given, the indices it buffered last,
\* and the sizes of the tables and of the buffer before and after it
Logged(before, after, call, name, id) ==
    [after EXCEPT !.log =
        Append(@, [call |-> call, name |-> name, target |-> id,
                   dir |-> IF after.fl.rfDirs = <<>> THEN -1
                           ELSE after.fl.rfDirs[Len(after.fl.rfDirs)],
                   file |-> IF after.fl.rfNames = <<>> THEN -1
                            ELSE after.fl.rfNames[Len(after.fl.rfNames)],
                   bufferedBefore |-> Len(before.fl.rfDirs),
                   buffered |-> Len(after.fl.rfDirs),
                   dirsBefore |-> Len(before.dirNames),
                   filesBefore |-> Len(before.fileNames),
                   dirsAfter |-> Len(after.dirNames),
                   filesAfter |-> Len(after.fileNames)])]

\* appendFileName rebinding the loader without flushFileNames(fl)
appendFileNameNoFlush(c, id, name) ==
    LET c1 == IF c.fl.rf # id
              THEN [c EXCEPT !.fl.rf = id]
              ELSE c
        idx == LastIndexOf(name, "/") + 1
        dr == Left(name, idx)
        nm == MidFrom(name, idx)
        newDir == dr \notin DOMAIN c1.dirMap
        dirIdx == IF newDir THEN Len(c1.dirNames) ELSE c1.dirMap[dr]
        newFile == nm \notin DOMAIN c1.fileMap
        fileIdx == IF newFile THEN Len(c1.fileNames) ELSE c1.fileMap[nm]
        r == [c1 EXCEPT
                !.dirMap = IF newDir THEN Put(@, dr, dirIdx) ELSE @,
                !.dirNames = IF newDir THEN Append(@, dr) ELSE @,
                !.fileMap = IF newFile THEN Put(@, nm, fileIdx) ELSE @,
                !.fileNames = IF newFile THEN Append(@, nm) ELSE @,
                !.fl.rfDirs = Append(@, dirIdx),
                !.fl.rfNames = Append(@, fileIdx)]
    IN Logged(c1, r, "appendFileName", name, id)

\* appendFileName without mDirNamesMap.insert(dr, idx)
appendFileNameNoDirInsert(c, id, name) ==
    LET c1 == IF c.fl.rf # id
              THEN [flushFileNames(c) EXCEPT !.fl.rf = id]
              ELSE c
        idx == LastIndexOf(name, "/") + 1
        dr == Left(name, idx)
        nm == MidFrom(name, idx)
        newDir == dr \notin DOMAIN c1.dirMap
        dirIdx == IF newDir THEN Len(c1.dirNames) ELSE c1.dirMap[dr]
        newFile == nm \notin DOMAIN c1.fileMap
        fileIdx == IF newFile THEN Len(c1.fileNames) ELSE c1.fileMap[nm]
        r == [c1 EXCEPT
                !.dirNames = IF newDir THEN Append(@, dr) ELSE @,
                !.fileMap = IF newFile THEN Put(@, nm, fileIdx) ELSE @,
                !.fileNames = IF newFile THEN Append(@, nm) ELSE @,
                !.fl.rfDirs = Append(@, dirIdx),
                !.fl.rfNames = Append(@, fileIdx)]
    IN Logged(c1, r, "appendFileName", name, id)

appendFileName(c, id, name) ==
    LET c1 == IF c.fl.rf # id
              THEN [flushFileNames(c) EXCEPT !.fl.rf = id]
              ELSE c
        idx == LastIndexOf(name, "/") + 1
        dr == Left(name, idx)
        nm == MidFrom(name, idx)
        newDir == dr \notin DOMAIN c1.dirMap
        dirIdx == IF newDir THEN Len(c1.dirNames) ELSE c1.dirMap[dr]
        newFile == nm \notin DOMAIN c1.fileMap
        fileIdx == IF newFile THEN Len(c1.fileNames) ELSE c1.fileMap[nm]
        r == [c1 EXCEPT
                !.dirMap = IF newDir THEN Put(@, dr, dirIdx) ELSE @,
                !.dirNames = IF newDir THEN Append(@, dr) ELSE @,
                !.fileMap = IF newFile THEN Put(@, nm, fileIdx) ELSE @,
                !.fileNames = IF newFile THEN Append(@, nm) ELSE @,
                !.fl.rfDirs = Append(@, dirIdx),
                !.fl.rfNames = Append(@, fileIdx)]
    IN Logged(c1, r, "appendFileName", name, id)

\* clearFileNames without mDirNamesMap.clear()
clearFileNamesKeepsDirMap(c) ==
    Logged(c, [c EXCEPT !.fileMap = EmptyMap,
                        !.dirNames = <<>>, !.fileNames = <<>>],
           "clearFileNames", <<>>, NoFile)

clearFileNames(c) ==
    Logged(c, [c EXCEPT !.fileMap = EmptyMap, !.dirMap = EmptyMap,
                        !.dirNames = <<>>, !.fileNames = <<>>],
           "clearFileNames", <<>>, NoFile)

filePath(c, rf, i) == c.dirNames[dirAt(rf, i) + 1] \o c.fileNames[nameAt(rf, i) + 1]

findFileIndex(c, rf, name) ==
    IF name = <<>> THEN -1
    ELSE LET idx == LastIndexOf(name, "/") + 1
             dr == Left(name, idx)
             nm == MidFrom(name, idx)
             hits == {i \in 0..(count(rf) - 1) :
                         /\ c.fileNames[nameAt(rf, i) + 1] = nm
                         /\ c.dirNames[dirAt(rf, i) + 1] = dr}
         IN IF hits = {} THEN -1 ELSE Min(hits)

(***************************************************************************)
(* The diff-record parser.  Each operator yields the set of states the     *)
(* call can end in: one state, unless it reads past the end of a string.   *)
(***************************************************************************)
Arrow == <<" ", "-", "-", ">", " ">>

ExtStatusInfo(orig, dest, type) ==
    orig \o Arrow \o dest \o <<" ", "(">> \o Number(ToInt(type)) \o <<"%", ")">>

\* setExtStatus without the check of the number of fields: a row that does
\* not hold three fields is entered under its whole text
setExtStatusNoFieldCheck(c, id, rowSt, parNum) ==
    LET sl == SplitSkipEmpty(rowSt, TAB)
    IN IF Len(sl) # 3
       THEN {[appendFileName(c, id, rowSt) EXCEPT !.files[id] =
                 setOnlyModified(
                     setStatusFlag([@ EXCEPT !.mergeParent = Append(@, parNum)], NEW_),
                     FALSE)]}
       ELSE LET type == MidFrom(sl[1], 1)
                orig == sl[2]
                dest == sl[3]
                info == ExtStatusInfo(orig, dest, type)
                c1 == appendFileName(c, id, dest)
                c2 == [c1 EXCEPT !.files[id] =
                          appendExtStatus(
                              setStatusFlag([@ EXCEPT !.mergeParent = Append(@, parNum)], NEW_),
                              info)]
                c3 == MarkRead(c2, type, 0)
                c4 == appendFileName(c3, id, orig)
                c5 == [c4 EXCEPT !.files[id] =
                          appendExtStatus(
                              setStatusFlag([@ EXCEPT !.mergeParent = Append(@, parNum)], DELETED),
                              info)]
            IN {IF ch = ABORT THEN Abort(c3)
                ELSE IF ch = "R"
                     THEN [c5 EXCEPT !.files[id] = setOnlyModified(@, FALSE)]
                     ELSE [c3 EXCEPT !.files[id] = setOnlyModified(@, FALSE)]
                : ch \in ReadChar(type, 0)}

\* setExtStatus without its closing rf.setOnlyModified(false)
setExtStatusKeepsOnlyModified(c, id, rowSt, parNum) ==
    LET sl == SplitSkipEmpty(rowSt, TAB)
    IN IF Len(sl) # 3 THEN {c}
       ELSE LET type == MidFrom(sl[1], 1)
                orig == sl[2]
                dest == sl[3]
                info == ExtStatusInfo(orig, dest, type)
                c1 == appendFileName(c, id, dest)
                c2 == [c1 EXCEPT !.files[id] =
                          appendExtStatus(
                              setStatusFlag([@ EXCEPT !.mergeParent = Append(@, parNum)], NEW_),
                              info)]
                c3 == MarkRead(c2, type, 0)
                c4 == appendFileName(c3, id, orig)
                c5 == [c4 EXCEPT !.files[id] =
                          appendExtStatus(
                              setStatusFlag([@ EXCEPT !.mergeParent = Append(@, parNum)], DELETED),
                              info)]
            IN {IF ch = ABORT THEN Abort(c3)
                ELSE IF ch = "R"
                     THEN c5
                     ELSE c3
                : ch \in ReadChar(type, 0)}

\* setExtStatus appending the Deleted entry whatever the status token is
setExtStatusAlwaysDeletes(c, id, rowSt, parNum) ==
    LET sl == SplitSkipEmpty(rowSt, TAB)
    IN IF Len(sl) # 3 THEN {c}
       ELSE LET type == MidFrom(sl[1], 1)
                orig == sl[2]
                dest == sl[3]
                info == ExtStatusInfo(orig, dest, type)
                c1 == appendFileName(c, id, dest)
                c2 == [c1 EXCEPT !.files[id] =
                          appendExtStatus(
                              setStatusFlag([@ EXCEPT !.mergeParent = Append(@, parNum)], NEW_),
                              info)]
                c3 == MarkRead(c2, type, 0)
                c4 == appendFileName(c3, id, orig)
                c5 == [c4 EXCEPT !.files[id] =
                          appendExtStatus(
                              setStatusFlag([@ EXCEPT !.mergeParent = Append(@, parNum)], DELETED),
                              info)]
            IN {IF ch = ABORT THEN Abort(c3)
                ELSE [c5 EXCEPT !.files[id] = setOnlyModified(@, FALSE)]
                : ch \in ReadChar(type, 0)}

setExtStatus(c, id, rowSt, parNum) ==
    LET sl == SplitSkipEmpty(rowSt, TAB)
    IN IF Len(sl) # 3 THEN {c}
       ELSE LET type == MidFrom(sl[1], 1)
                orig == sl[2]
                dest == sl[3]
                info == ExtStatusInfo(orig, dest, type)
                c1 == appendFileName(c, id, dest)
                c2 == [c1 EXCEPT !.files[id] =
                          appendExtStatus(
                              setStatusFlag([@ EXCEPT !.mergeParent = Append(@, parNum)], NEW_),
                              info)]
                c3 == MarkRead(c2, type, 0)
                c4 == appendFileName(c3, id, orig)
                c5 == [c4 EXCEPT !.files[id] =
                          appendExtStatus(
                              setStatusFlag([@ EXCEPT !.mergeParent = Append(@, parNum)], DELETED),
                              info)]
            IN {IF ch = ABORT THEN Abort(c3)
                ELSE IF ch = "R"
                     THEN [c5 EXCEPT !.files[id] = setOnlyModified(@, FALSE)]
                     ELSE [c3 EXCEPT !.files[id] = setOnlyModified(@, FALSE)]
                : ch \in ReadChar(type, 0)}

\* parseDiffFormatLine taking the path of the fast path from the position
\* of the tab, line.mid(98), instead of the position behind it
parseDiffFormatLinePathAtTab(c, id, line, parNum) ==
    LET c0 == MarkRead(c, line, 1)
        combined ==
            LET a == appendFileName(c0, id, SectionLast(line, TAB))
            IN [a EXCEPT !.files[id] =
                   [setStatus(@, "M") EXCEPT !.mergeParent = Append(@, parNum)]]
        c1 == MarkRead(c0, line, TabOffset)
        fast ==
            LET a == MarkRead(appendFileName(c1, id, MidFrom(line, TabOffset)),
                              line, StatusOffset)
            IN {IF st = ABORT THEN Abort(a)
                ELSE [a EXCEPT !.files[id] =
                         [setStatus(@, st) EXCEPT !.mergeParent = Append(@, parNum)]]
                : st \in ReadChar(line, StatusOffset)}
    IN UNION {IF ch1 = ABORT THEN {Abort(c0)}
              ELSE IF ch1 = ":" THEN {combined}
              ELSE UNION {IF ch98 = ABORT THEN {Abort(c1)}
                          ELSE IF ch98 = TAB THEN fast
                          ELSE setExtStatus(c1, id, MidFrom(line, StatusOffset), parNum)
                          : ch98 \in ReadChar(line, TabOffset)}
              : ch1 \in ReadChar(line, 1)}

parseDiffFormatLine(c, id, line, parNum) ==
    LET c0 == MarkRead(c, line, 1)
        combined ==
            LET a == appendFileName(c0, id, SectionLast(line, TAB))
            IN [a EXCEPT !.files[id] =
                   [setStatus(@, "M") EXCEPT !.mergeParent = Append(@, parNum)]]
        c1 == MarkRead(c0, line, TabOffset)
        fast ==
            LET a == MarkRead(appendFileName(c1, id, MidFrom(line, PathOffset)),
                              line, StatusOffset)
            IN {IF st = ABORT THEN Abort(a)
                ELSE [a EXCEPT !.files[id] =
                         [setStatus(@, st) EXCEPT !.mergeParent = Append(@, parNum)]]
                : st \in ReadChar(line, StatusOffset)}
    IN UNION {IF ch1 = ABORT THEN {Abort(c0)}
              ELSE IF ch1 = ":" THEN {combined}
              ELSE UNION {IF ch98 = ABORT THEN {Abort(c1)}
                          ELSE IF ch98 = TAB THEN fast
                          ELSE setExtStatus(c1, id, MidFrom(line, StatusOffset), parNum)
                          : ch98 \in ReadChar(line, TabOffset)}
              : ch1 \in ReadChar(line, 1)}

\* One pass of the loop of parseDiffFormat: the loop's locals before the pass
\* are p = [startPos, endPos, parNum], with endPos # -1.
CurrentLine(buf, p) == Mid(buf, p.startPos, p.endPos - p.startPos)

parseDiffFormatPass(c, id, buf, p) ==
    LET line == CurrentLine(buf, p)
        c0 == MarkRead(c, line, 0)
        after(n) == [startPos |-> p.endPos + 1,
                     endPos |-> IndexOf(buf, NL, p.endPos + NewlineSkip),
                     parNum |-> n]
    IN UNION {IF ch0 = ABORT THEN {[c |-> Abort(c0), p |-> p]}
              ELSE IF ch0 = ":"
                   THEN {[c |-> r, p |-> IF r.aborted THEN p ELSE after(p.parNum)]
                         : r \in parseDiffFormatLine(c0, id, line, p.parNum)}
                   ELSE {[c |-> c0, p |-> after(p.parNum + 1)]}
              : ch0 \in ReadChar(line, 0)}

\* the locals of parseDiffFormat when its loop is entered
parseDiffFormatEntry(buf) ==
    [startPos |-> 0, endPos |-> IndexOf(buf, NL, 0), parNum |-> 1]

\* parseDiffFormat as a whole: the states it can return in
parseDiffFormat(c, id, buf) ==
    LET RECURSIVE loop(_, _)
        loop(cc, p) ==
            IF cc.aborted \/ p.endPos = -1 THEN {cc}
            ELSE UNION {loop(r.c, r.p) : r \in parseDiffFormatPass(cc, id, buf, p)}
    IN loop(c, parseDiffFormatEntry(buf))

(***************************************************************************)
(* The working-directory synthesizer (fakeWorkDirRevFile), in the three    *)
(* parts that lie between its two parseDiffFormat calls.                   *)
(***************************************************************************)
\* the untracked files appended with status MODIFIED instead of UNKNOWN
fakeWorkDirOthersAsModified(c, otherFiles) ==
    LET RECURSIVE loop(_, _)
        loop(cc, k) ==
            IF k > Len(otherFiles) THEN cc
            ELSE LET a == appendFileName(cc, "rf", otherFiles[k])
                 IN loop([a EXCEPT !.files["rf"] =
                             [setStatusFlag(@, MODIFIED) EXCEPT
                                 !.mergeParent = Append(@, 1)]],
                         k + 1)
        c0 == [c EXCEPT !.files["rf"] = setOnlyModified(@, FALSE)]
        c1 == loop(c0, 1)
    IN [c1 EXCEPT !.files = [id \in {"rf", "cachedFiles"} |->
                                IF id = "rf" THEN c1.files["rf"] ELSE EmptyRevisionFile]]

\* the untracked files appended without rf.mergeParent.append(1)
fakeWorkDirOthersNoParent(c, otherFiles) ==
    LET RECURSIVE loop(_, _)
        loop(cc, k) ==
            IF k > Len(otherFiles) THEN cc
            ELSE LET a == appendFileName(cc, "rf", otherFiles[k])
                 IN loop([a EXCEPT !.files["rf"] = setStatusFlag(@, UNKNOWN)],
                         k + 1)
        c0 == [c EXCEPT !.files["rf"] = setOnlyModified(@, FALSE)]
        c1 == loop(c0, 1)
    IN [c1 EXCEPT !.files = [id \in {"rf", "cachedFiles"} |->
                                IF id = "rf" THEN c1.files["rf"] ELSE EmptyRevisionFile]]

\* lines 895-904: onlyModified is switched off, the untracked files are
\* appended, cachedFiles is declared
fakeWorkDirOthers(c, otherFiles) ==
    LET RECURSIVE loop(_, _)
        loop(cc, k) ==
            IF k > Len(otherFiles) THEN cc
            ELSE LET a == appendFileName(cc, "rf", otherFiles[k])
                 IN loop([a EXCEPT !.files["rf"] =
                             [setStatusFlag(@, UNKNOWN) EXCEPT
                                 !.mergeParent = Append(@, 1)]],
                         k + 1)
        c0 == [c EXCEPT !.files["rf"] = setOnlyModified(@, FALSE)]
        c1 == loop(c0, 1)
    IN [c1 EXCEPT !.files = [id \in {"rf", "cachedFiles"} |->
                                IF id = "rf" THEN c1.files["rf"] ELSE EmptyRevisionFile]]

\* lines 906-919: the final flush and the merge of the staged statuses
fakeWorkDirMerge(c) ==
    LET RECURSIVE loop(_, _)
        loop(cc, i) ==
            LET rf == cc.files["rf"]
                cachedFiles == cc.files["cachedFiles"]
                seen == [cc EXCEPT !.oobStatus = @ \/ i >= Len(cachedFiles.status)]
            IN IF cc.aborted \/ i >= count(rf) THEN {cc}
               ELSE IF findFileIndex(cc, cachedFiles, filePath(cc, rf, i)) # -1
                    THEN UNION {
                           IF r.abort THEN {Abort(seen)}
                           ELSE loop([seen EXCEPT !.files["rf"] =
                                        appendStatus(
                                          IF r.value THEN appendStatus(@, i, CONFLICT) ELSE @,
                                          i, IN_INDEX)],
                                     i + 1)
                           : r \in statusCmp(cachedFiles, i, CONFLICT)}
                    ELSE loop(cc, i + 1)
    IN loop(flushFileNames(c), 0)

(***************************************************************************)
(* Inputs: raw diff-tree / diff-index text.                                *)
(***************************************************************************)
\* the fixed-width prefix of a single-parent record: ':', two modes and two
\* full hashes, each followed by a blank (positions 0 .. StatusOffset - 1)
Meta ==
    [i \in 1..StatusOffset |->
        IF i = 1 THEN ":" ELSE IF i \in {8, 15, 56, 97} THEN " " ELSE "0"]

FastLine(st, path) == Meta \o <<st, TAB>> \o path

SlowLine(token, orig, dest) == Meta \o token \o <<TAB>> \o orig \o <<TAB>> \o dest

\* a two-parent combined record: "::", three modes, three hashes, "MM"
CombinedLine(path) ==
    <<":", ":">> \o [i \in 1..144 |-> "0"] \o <<"M", "M", TAB>> \o path

ShaLine == [i \in 1..40 |-> "a"]

PathA == <<"a">>

PathDB == <<"d", "/", "b">>

PathDO == <<"d", "/", "o">>

PathU == <<"u">>

PathDA == <<"d", "/", "a">>

\* rename and copy records: status token, its similarity as a number,
\* origin and destination
RenameCases ==
    {[token |-> <<"R", "9", "0">>, pct |-> <<"9", "0">>, orig |-> PathDO, dest |-> PathA]}

CopyCases ==
    {[token |-> <<"C", "0", "8", "0">>, pct |-> <<"8", "0">>, orig |-> PathA, dest |-> PathDB]}

CaseLine(k) == SlowLine(k.token, k.orig, k.dest)

\* a slow-path record with two fields instead of three
MalformedLine == Meta \o <<"R", "9", "0", TAB>> \o PathDO

\* a slow-path record with four fields
OverlongLine == SlowLine(<<"R", "9", "0">>, PathDO, PathA) \o <<TAB>> \o PathU

DiffLines ==
    {FastLine("M", PathA), FastLine("A", PathDB), FastLine("M", <<>>),
     CombinedLine(PathDB), ShaLine, <<>>, <<":">>, MalformedLine, OverlongLine}
    \cup {CaseLine(k) : k \in RenameCases \cup CopyCases}

\* the lines of "diff-tree -m" for a merge: the hash line that opens the
\* section of a parent, and change records
MergeLines == {ShaLine, FastLine("M", PathA)}

\* records of diff-index: a status letter and a path
WipRecords ==
    {[st |-> "M", path |-> PathA], [st |-> "U", path |-> PathA],
     [st |-> "M", path |-> PathDB],
     [st |-> "D", path |-> PathDA], [st |-> "M", path |-> <<>>]}

OtherPaths == {PathU, PathDA}

\* the newline-terminated records of a text, joined
JoinLines(ls) ==
    LET RECURSIVE join(_)
        join(k) == IF k = 0 THEN <<>> ELSE join(k - 1) \o ls[k] \o <<NL>>
    IN join(Len(ls))

LineLists(L, n) == UNION {[1..k -> L] : k \in 0..n}

Texts(L, n) == {JoinLines(ls) : ls \in LineLists(L, n)}

OtherLists ==
    {ls \in LineLists(OtherPaths, MaxOthers) :
        \A i, j \in 1..Len(ls) : ls[i] = ls[j] => i = j}

\* the texts handed to insertNewFiles
DiffTexts == Texts(DiffLines, MaxLines) \cup Texts(MergeLines, MaxMergeLines)

\* diff-index texts: fast-path records, each path listed once
WipTexts ==
    {JoinLines([i \in 1..Len(ls) |-> FastLine(ls[i].st, ls[i].path)]) :
        ls \in {l \in LineLists(WipRecords, MaxWipLines) :
                  \A i, j \in 1..Len(l) : l[i].path = l[j].path => i = j}}

\* paths a session run earlier has left in the tables
Preloads == {<<>>, <<PathDB>>}

ZERO_SHA == "0000000000000000000000000000000000000000"

Shas == {"c1"}

(***************************************************************************)
(* State.                                                                  *)
(***************************************************************************)
VARIABLES
    mDirNames, mFileNames, mDirNamesMap, mFileNamesMap,  \* Git's interner
    files,          \* the RevisionFile locals of the running operation
    fl,             \* its FileNamesLoader
    mRevCache,      \* revision files of the cache, by key
    workingDirInfo, \* the WorkingDirInfo fakeWorkDirRevFile was given
    result,         \* the RevisionFile the finished operation returned
    pc, op, sha,    \* position, running operation, key given to insertNewFiles
    buf, startPos, endPos, parNum,  \* locals of the running parseDiffFormat
    oobRead, oobStatus, aborted, internLog,
    isLoading,      \* Git::isLoading
    mCommits,       \* commits of the cache: the pseudo-commit and the decoded ones
    requestor,      \* a GitRequestorProcess is running and will deliver its stream
    events,         \* what the last member function emitted and began, in order
    ran,            \* the external queries the last member function ran
    clearedKeys,    \* cache keys the last member function removed by clearRevs
    gitIndex,       \* the paths updated in the index of the repository
    selFiles,       \* the files the last commitFiles was given
    sessions        \* the parse sessions in flight, each with its FileNamesLoader

vars ==
    <<mDirNames, mFileNames, mDirNamesMap, mFileNamesMap, files, fl, mRevCache,
      workingDirInfo, result, pc, op, sha, buf, startPos, endPos, parNum,
      oobRead, oobStatus, aborted, internLog,
      isLoading, mCommits, requestor, events, ran, clearedKeys,
      gitIndex, selFiles, sessions>>

Ctx ==
    [dirNames |-> mDirNames, fileNames |-> mFileNames,
     dirMap |-> mDirNamesMap, fileMap |-> mFileNamesMap,
     files |-> files, fl |-> fl, oobRead |-> oobRead, oobStatus |-> oobStatus,
     aborted |-> aborted, log |-> internLog]

SetCtx(c) ==
    /\ mDirNames' = c.dirNames
    /\ mFileNames' = c.fileNames
    /\ mDirNamesMap' = c.dirMap
    /\ mFileNamesMap' = c.fileMap
    /\ files' = c.files
    /\ fl' = c.fl
    /\ oobRead' = c.oobRead
    /\ oobStatus' = c.oobStatus
    /\ aborted' = c.aborted
    /\ internLog' = c.log

Locals == [startPos |-> startPos, endPos |-> endPos, parNum |-> parNum]

SetLocals(p) ==
    /\ startPos' = p.startPos
    /\ endPos' = p.endPos
    /\ parNum' = p.parNum

FreshCtx ==
    [dirNames |-> <<>>, fileNames |-> <<>>, dirMap |-> EmptyMap, fileMap |-> EmptyMap,
     files |-> [id \in {"rf"} |-> EmptyRevisionFile], fl |-> EmptyLoader,
     oobRead |-> FALSE, oobStatus |-> FALSE, aborted |-> FALSE, log |-> <<>>]

\* the tables after an earlier session interned the paths of pre
PreloadedCtx(pre) ==
    LET RECURSIVE load(_)
        load(k) == IF k = 0 THEN FreshCtx ELSE appendFileName(load(k - 1), "rf", pre[k])
    IN [load(Len(pre)) EXCEPT !.files = FreshCtx.files, !.fl = EmptyLoader, !.log = <<>>]

NoInfo == [diffIndex |-> <<>>, diffIndexCached |-> <<>>, otherFiles |-> <<>>]

\* no pseudo-commit: the CommitInfo of a sha the cache does not hold
NoCommit == [sha |-> "", parents |-> 0, log |-> ""]

\* the commits of an empty cache
NoCommits == [wip |-> NoCommit, rows |-> <<>>]

\* no GitRequestorProcess that will deliver a log stream: none was started,
\* or the one started was cancelled or failed
NoData == FALSE

\* the member functions that parse with a FileNamesLoader of their own
SessionNames == {"insertNewFiles", "fakeWorkDirRevFile"}

\* a member function not running: no loader, no call to make, none made
IdleSession ==
    [running |-> FALSE, returned |-> FALSE, fl |-> EmptyLoader,
     todo |-> <<>>, made |-> <<>>]

\* no parse session in flight
NoSessions == [s \in SessionNames |-> IdleSession]

\* the index and the sessions in flight, untouched by a member function
\* that runs alone and no git command that writes the index
CommitFrame == UNCHANGED <<gitIndex, selFiles, sessions>>

\* the variables of the repository load, untouched by the parse sessions
LoadFrame ==
    /\ UNCHANGED <<isLoading, mCommits, requestor, events, ran, clearedKeys>>
    /\ CommitFrame

InitWith(c) ==
    /\ mDirNames = c.dirNames
    /\ mFileNames = c.fileNames
    /\ mDirNamesMap = c.dirMap
    /\ mFileNamesMap = c.fileMap
    /\ files = c.files
    /\ fl = c.fl
    /\ oobRead = FALSE
    /\ oobStatus = FALSE
    /\ aborted = FALSE
    /\ internLog = <<>>
    /\ mRevCache = EmptyMap
    /\ workingDirInfo = NoInfo
    /\ result = EmptyRevisionFile
    /\ pc = "idle"
    /\ op = "none"
    /\ sha = ""
    /\ buf = <<>>
    /\ startPos = 0
    /\ endPos = -1
    /\ parNum = 1
    /\ isLoading = FALSE
    /\ mCommits = NoCommits
    /\ requestor = NoData
    /\ events = <<>>
    /\ ran = <<>>
    /\ clearedKeys = {}
    /\ gitIndex = {}
    /\ selFiles = <<>>
    /\ sessions = NoSessions

Init == \E pre \in Preloads : InitWith(PreloadedCtx(pre))

(***************************************************************************)
(* insertNewFiles(sha, data)                                               *)
(***************************************************************************)
InsertNewFilesBegin ==
    /\ pc = "idle"
    /\ \E s \in Shas, data \in DiffTexts :
          /\ sha' = s
          /\ buf' = data
          /\ SetLocals(parseDiffFormatEntry(data))
    /\ op' = "insertNewFiles"
    /\ pc' = "parse"
    /\ files' = [id \in {"rf"} |-> EmptyRevisionFile]
    /\ fl' = EmptyLoader
    /\ UNCHANGED <<mDirNames, mFileNames, mDirNamesMap, mFileNamesMap, mRevCache,
                   workingDirInfo, result, oobRead, oobStatus, aborted, internLog>>
    /\ LoadFrame

\* one pass of the loop of parseDiffFormat, in either operation
ParseDiffFormatPass ==
    /\ pc \in {"parse", "wipDiffIndex", "wipCached"}
    /\ endPos # -1
    /\ \E r \in parseDiffFormatPass(Ctx, IF pc = "wipCached" THEN "cachedFiles" ELSE "rf",
                                    buf, Locals) :
          /\ SetCtx(r.c)
          /\ SetLocals(r.p)
          /\ pc' = IF r.c.aborted THEN "aborted" ELSE pc
    /\ UNCHANGED <<mRevCache, workingDirInfo, result, op, sha, buf>>
    /\ LoadFrame

InsertNewFilesEnd ==
    /\ pc = "parse"
    /\ endPos = -1
    /\ LET c == flushFileNames(Ctx)
       IN /\ SetCtx(c)
          /\ mRevCache' = Put(mRevCache, sha, c.files["rf"])
          /\ result' = c.files["rf"]
    /\ pc' = "done"
    /\ UNCHANGED <<workingDirInfo, op, sha, buf, startPos, endPos, parNum>>
    /\ LoadFrame

(***************************************************************************)
(* fakeWorkDirRevFile(wd)                                                  *)
(***************************************************************************)
FakeWorkDirBegin ==
    /\ pc = "idle"
    /\ \E di \in WipTexts, dc \in WipTexts, others \in OtherLists :
          /\ workingDirInfo' = [diffIndex |-> di, diffIndexCached |-> dc,
                                otherFiles |-> others]
          /\ buf' = di
          /\ SetLocals(parseDiffFormatEntry(di))
    /\ op' = "fakeWorkDirRevFile"
    /\ pc' = "wipDiffIndex"
    /\ files' = [id \in {"rf"} |-> EmptyRevisionFile]
    /\ fl' = EmptyLoader
    /\ UNCHANGED <<mDirNames, mFileNames, mDirNamesMap, mFileNamesMap, mRevCache,
                   result, sha, oobRead, oobStatus, aborted, internLog>>
    /\ LoadFrame

FakeWorkDirOthers ==
    /\ pc = "wipDiffIndex"
    /\ endPos = -1
    /\ SetCtx(fakeWorkDirOthers(Ctx, workingDirInfo.otherFiles))
    /\ buf' = workingDirInfo.diffIndexCached
    /\ SetLocals(parseDiffFormatEntry(workingDirInfo.diffIndexCached))
    /\ pc' = "wipCached"
    /\ UNCHANGED <<mRevCache, workingDirInfo, result, op, sha>>
    /\ LoadFrame

FakeWorkDirEnd ==
    /\ pc = "wipCached"
    /\ endPos = -1
    /\ \E c \in fakeWorkDirMerge(Ctx) :
          /\ SetCtx(c)
          /\ pc' = IF c.aborted THEN "aborted" ELSE "done"
          /\ result' = IF c.aborted THEN result ELSE c.files["rf"]
    /\ UNCHANGED <<mRevCache, workingDirInfo, op, sha, buf, startPos, endPos, parNum>>
    /\ LoadFrame

Next ==
    \/ InsertNewFilesBegin
    \/ ParseDiffFormatPass
    \/ InsertNewFilesEnd
    \/ FakeWorkDirBegin
    \/ FakeWorkDirOthers
    \/ FakeWorkDirEnd

Spec == Init /\ [][Next]_vars

(***************************************************************************)
(* The interner and the loader on their own: a caller makes any sequence   *)
(* of appendFileName, flushFileNames and clearFileNames calls on two       *)
(* RevisionFile objects that share one FileNamesLoader.  op holds the      *)
(* member function called last.                                            *)
(***************************************************************************)
InternPaths == {<<>>, PathA, PathDA, PathDB}

InternTargets == {"rf", "cachedFiles"}

InitIntern ==
    InitWith([FreshCtx EXCEPT !.files = [id \in InternTargets |-> EmptyRevisionFile]])

InternFrame ==
    /\ UNCHANGED <<mRevCache, workingDirInfo, result, pc, sha, buf, startPos, endPos, parNum>>
    /\ LoadFrame

CallAppendFileName ==
    /\ Len(internLog) < MaxCalls
    /\ \E id \in InternTargets, name \in InternPaths :
          SetCtx(appendFileName(Ctx, id, name))
    /\ op' = "appendFileName"
    /\ InternFrame

CallFlushFileNames ==
    /\ SetCtx(flushFileNames(Ctx))
    /\ op' = "flushFileNames"
    /\ InternFrame

CallClearFileNames ==
    /\ Len(internLog) < MaxCalls
    /\ SetCtx(clearFileNames(Ctx))
    /\ op' = "clearFileNames"
    /\ InternFrame

NextIntern ==
    \/ CallAppendFileName
    \/ CallFlushFileNames
    \/ CallClearFileNames

SpecIntern == InitIntern /\ [][NextIntern]_vars

(***************************************************************************)
(* Two parse sessions in flight: insertNewFiles and fakeWorkDirRevFile,    *)
(* each with the FileNamesLoader it declares, taking turns record by       *)
(* record on the interner tables they share.                               *)
(***************************************************************************)
\* the RevisionFile locals of the two member functions
SessionTargets ==
    [insertNewFiles |-> <<"insertNewFiles.rf">>,
     fakeWorkDirRevFile |-> <<"rf", "cachedFiles">>]

SessionTargetIds == {"insertNewFiles.rf", "rf", "cachedFiles"}

SessionPaths == {PathA, PathDB}

\* the appendFileName calls a session makes, in order: a RevisionFile is
\* filled before the next one in the function is
SessionCalls(s) ==
    {calls \in UNION {[1..k -> [target : {SessionTargets[s][j] : j \in 1..Len(SessionTargets[s])},
                                name : SessionPaths]] : k \in 0..MaxSessionCalls} :
        \A i, j \in 1..Len(calls) :
            (i < j /\ calls[j].target = SessionTargets[s][1]) => calls[i].target = calls[j].target}

\* every session on the loader of one session
loaderOfShared(s) == "insertNewFiles"

\* the FileNamesLoader a session works with: the one it declared
loaderOf(s) == s

InitSessions ==
    InitWith([FreshCtx EXCEPT !.files = [id \in SessionTargetIds |-> EmptyRevisionFile]])

SessionFrame ==
    /\ UNCHANGED <<workingDirInfo, pc, sha, buf, startPos, endPos, parNum,
                   gitIndex, selFiles>>
    /\ UNCHANGED <<isLoading, mCommits, requestor, events, ran, clearedKeys>>

\* the member function is entered: FileNamesLoader fl
SessionBegin(s) ==
    /\ sessions[s] = IdleSession
    /\ \E calls \in SessionCalls(s) :
          sessions' = [sessions EXCEPT ![s] = [running |-> TRUE, returned |-> FALSE,
                                               fl |-> EmptyLoader,
                                               todo |-> calls, made |-> <<>>]]
    /\ op' = s
    /\ UNCHANGED <<mDirNames, mFileNames, mDirNamesMap, mFileNamesMap, files, fl,
                   oobRead, oobStatus, aborted, internLog, mRevCache, result>>
    /\ SessionFrame

\* one record of the session's text: appendFileName, setStatus and
\* mergeParent.append
SessionStep(s) ==
    /\ sessions[s].running
    /\ sessions[s].todo # <<>>
    /\ ~aborted
    /\ LET call == Head(sessions[s].todo)
           a == appendFileName([Ctx EXCEPT !.fl = sessions[loaderOf(s)].fl],
                               call.target, call.name)
           c == [a EXCEPT !.files[call.target] =
                    [setStatus(@, "M") EXCEPT !.mergeParent = Append(@, 1)]]
       IN /\ SetCtx([c EXCEPT !.fl = fl])
          /\ sessions' = [sessions EXCEPT ![s].todo = Tail(@),
                                          ![s].made = Append(@, call),
                                          ![loaderOf(s)].fl = c.fl]
    /\ op' = s
    /\ UNCHANGED <<mRevCache, result>>
    /\ SessionFrame

\* the end of insertNewFiles: flushFileNames, insertRevisionFile, return
InsertNewFilesReturn ==
    /\ sessions["insertNewFiles"].running
    /\ sessions["insertNewFiles"].todo = <<>>
    /\ ~aborted
    /\ LET s == "insertNewFiles"
           c == flushFileNames([Ctx EXCEPT !.fl = sessions[loaderOf(s)].fl])
           rf == c.files["insertNewFiles.rf"]
       IN /\ SetCtx([c EXCEPT !.fl = fl])
          /\ sessions' = [sessions EXCEPT ![s].running = FALSE,
                                          ![s].returned = TRUE,
                                          ![loaderOf(s)].fl = c.fl]
          /\ mRevCache' = Put(mRevCache, "c1", rf)
          /\ result' = rf
    /\ op' = "insertNewFiles"
    /\ SessionFrame

\* the end of fakeWorkDirRevFile: flushFileNames, the merge of the staged
\* statuses, return
FakeWorkDirReturn ==
    /\ sessions["fakeWorkDirRevFile"].running
    /\ sessions["fakeWorkDirRevFile"].todo = <<>>
    /\ ~aborted
    /\ LET s == "fakeWorkDirRevFile"
       IN \E c \in fakeWorkDirMerge([Ctx EXCEPT !.fl = sessions[loaderOf(s)].fl]) :
             /\ SetCtx([c EXCEPT !.fl = fl])
             /\ sessions' = [sessions EXCEPT ![s].running = FALSE,
                                             ![s].returned = ~c.aborted,
                                             ![loaderOf(s)].fl = c.fl]
             /\ result' = c.files["rf"]
    /\ op' = "fakeWorkDirRevFile"
    /\ UNCHANGED mRevCache
    /\ SessionFrame

NextSessions ==
    \/ \E s \in SessionNames : SessionBegin(s)
    \/ \E s \in SessionNames : SessionStep(s)
    \/ InsertNewFilesReturn
    \/ FakeWorkDirReturn

SpecSessions == InitSessions /\ [][NextSessions]_vars

(***************************************************************************)
(* The repository load: loadRepository, processRevision, updateWipRevision *)
(* and getDiffFiles.  The state of Git the member functions work on is one *)
(* record g:                                                               *)
(*   c         the interner, the RevisionFile locals and the loader        *)
(*   cache     the revision files of mRevCache, by key                     *)
(*   commits   the commits of mRevCache                                    *)
(*   wd        workingDirInfo                                              *)
(*   isLoading, requestor                                                  *)
(*   ran       the external queries run, with their success                *)
(*   events    the signals emitted and the steps begun by processRevision, *)
(*             each with what the cache held at that moment                *)
(*   ret       the value returned                                          *)
(* An external query is an input: whether it succeeded, and its output.    *)
(***************************************************************************)
\* QByteArray::split(sep): the fields between the separators, empty ones kept
SplitAll(s, sep) ==
    LET cuts == {i \in 1..Len(s) : s[i] = sep} \cup {0, Len(s) + 1}
        next(i) == Min({j \in cuts : j > i})
        RECURSIVE fields(_)
        fields(S) == IF S = {} THEN <<>>
                     ELSE LET i == Min(S)
                          IN <<SubSeq(s, i + 1, next(i) - 1)>> \o fields(S \ {i})
    IN fields(cuts \ {Len(s) + 1})

\* the text of a commit record of the log stream, one byte standing for the
\* text of a well-formed record ("c1": a commit of one parent, "c2": a merge
\* of two) or of a record that fails the structural validation ("x")
RecordTexts == {<<"c1">>, <<"c2">>, <<"x">>}

\* CommitInfo(record, order) and CommitInfo::isValid
CommitInfo(text, order) ==
    IF text = <<"c1">> THEN [sha |-> "c1", parents |-> 1, valid |-> TRUE]
    ELSE IF text = <<"c2">> THEN [sha |-> "c2", parents |-> 2, valid |-> TRUE]
    ELSE [sha |-> "", parents |-> 0, valid |-> FALSE]

\* records joined by NUL, as "git log -z" writes them
JoinNul(rs) ==
    LET RECURSIVE join(_)
        join(k) == IF k = 0 THEN <<>>
                   ELSE IF k = 1 THEN rs[1]
                   ELSE join(k - 1) \o <<NUL>> \o rs[k]
    IN join(Len(rs))

\* log streams: no commit is listed twice
Streams ==
    {JoinNul(rs) : rs \in {l \in LineLists(RecordTexts, MaxRecords) :
                             \A i, j \in 1..Len(l) :
                                (l[i] = l[j] /\ l[i] # <<"x">>) => i = j}}

\* outputs of the external queries
LoadWipTexts == {JoinLines(<<FastLine("M", PathA)>>)}

LoadOtherTexts == {<<>>, JoinLines(<<PathU>>)}

LoadDiffTexts == {JoinLines(<<FastLine("M", PathA)>>)}

\* the queries of updateWipRevision; the output of a query the code does
\* not reach, or does not use, is left empty
WipQueries ==
    {q \in [status : BOOLEAN, revParse : BOOLEAN, head : {"", "h"},
            diffIndex : BOOLEAN, diffIndexOut : LoadWipTexts \cup {<<>>},
            cached : BOOLEAN, cachedOut : LoadWipTexts \cup {<<>>},
            others : BOOLEAN, othersOut : LoadOtherTexts] :
        LET reachesHead == q.status /\ q.revParse
            reachesIndex == reachesHead /\ q.head # ""
            reachesCached == reachesIndex /\ q.diffIndex
            reachesOthers == reachesHead /\ (q.head = "" \/ (q.diffIndex /\ q.cached))
        IN /\ ~q.status => ~q.revParse
           /\ ~reachesHead => q.head = ""
           /\ ~reachesIndex => ~q.diffIndex
           /\ q.diffIndex <=> q.diffIndexOut # <<>>
           /\ ~reachesCached => ~q.cached
           /\ q.cached <=> q.cachedOut # <<>>
           /\ ~(reachesOthers /\ q.others) => (~q.others /\ q.othersOut = <<>>)}

\* requests made of getDiffFiles: all files of the merge, the diff of a
\* commit to another, and the files of a commit of one parent
DiffRequests ==
    {[sha |-> "c2", diffToSha |-> "", allFiles |-> TRUE],
     [sha |-> "c1", diffToSha |-> "c2", allFiles |-> FALSE],
     [sha |-> "c1", diffToSha |-> "", allFiles |-> FALSE]}

\* the queries of runDiffTreeWithRenameDetection: with -C, and the retry
DiffQueries ==
    {q \in [detect : BOOLEAN, plain : BOOLEAN, out : LoadDiffTexts] :
        q.detect => ~q.plain}

Run(g, cmd, ok) == [g EXCEPT !.ran = Append(@, [cmd |-> cmd, ok |-> ok])]

\* RevisionsCache::getCommitInfo(sha).parentsCount()
parentsCount(commits, s) ==
    IF s = ZERO_SHA THEN (IF commits.wip = NoCommit THEN 0 ELSE commits.wip.parents)
    ELSE LET hits == {k \in 1..Len(commits.rows) : commits.rows[k].sha = s}
         IN IF hits = {} THEN 0 ELSE commits.rows[Min(hits)].parents

\* RevisionsCache::insertRevisionFile
insertRevisionFile(cache, key, rf) == Put(cache, key, rf)

\* RevisionsCache::containsRevisionFile
containsRevisionFile(cache, key) == key \in DOMAIN cache

\* RevisionsCache::insertCommitInfo
insertCommitInfo(commits, revision) == [commits EXCEPT !.rows = Append(@, revision)]

\* RevisionsCache::updateWipCommit
updateWipCommit(commits, revision) == [commits EXCEPT !.wip = revision]

\* clearRevs without mRevCache->clearRevisionFile()
clearRevsKeepsRevisionFiles(g) == [g EXCEPT !.commits = NoCommits, !.wd = NoInfo]

clearRevs(g) == [g EXCEPT !.commits = NoCommits, !.cache = EmptyMap, !.wd = NoInfo]

\* insertNewFiles as a whole
insertNewFiles(g, key, data) ==
    {IF c.aborted THEN [g EXCEPT !.c = c]
     ELSE LET cf == flushFileNames(c)
          IN [g EXCEPT !.c = cf,
                       !.cache = insertRevisionFile(@, key, cf.files["rf"]),
                       !.ret = cf.files["rf"]]
     : c \in parseDiffFormat([g.c EXCEPT !.files = [id \in {"rf"} |-> EmptyRevisionFile],
                                         !.fl = EmptyLoader],
                             "rf", data)}

\* fakeWorkDirRevFile as a whole; the file returned is files["rf"]
fakeWorkDirRevFile(c, wd) ==
    LET c0 == [c EXCEPT !.files = [id \in {"rf"} |-> EmptyRevisionFile],
                        !.fl = EmptyLoader]
        staged(c1) ==
            UNION {IF c3.aborted THEN {c3} ELSE fakeWorkDirMerge(c3)
                   : c3 \in parseDiffFormat(fakeWorkDirOthers(c1, wd.otherFiles),
                                            "cachedFiles", wd.diffIndexCached)}
    IN UNION {IF c1.aborted THEN {c1} ELSE staged(c1)
              : c1 \in parseDiffFormat(c0, "rf", wd.diffIndex)}

isNothingToCommit(g) ==
    IF ~containsRevisionFile(g.cache, ZERO_SHA) THEN TRUE
    ELSE count(g.cache[ZERO_SHA]) = Len(g.wd.otherFiles)

\* getOthersFiles: the result of the query is not looked at, its output is
\* split into lines
getOthersFiles(g, q) ==
    [Run(g, "git ls-files --others", q.others) EXCEPT
        !.wd.otherFiles = SplitSkipEmpty(q.othersOut, NL)]

updateWipRevision(g, q) ==
    LET g1 == Run(g, "git status", q.status)
        g2 == Run(g1, "git rev-parse --revs-only HEAD", q.revParse)
        g3 == Run(g2, "git diff-index", q.diffIndex)
        g4 == [Run(g3, "git diff-index --cached", q.cached) EXCEPT
                  !.wd.diffIndex = q.diffIndexOut]
        g5 == [g4 EXCEPT !.wd.diffIndexCached = q.cachedOut]
        \* where the function returns early, and the state it returns in
        early == IF ~q.status THEN <<g1>>
                 ELSE IF ~q.revParse THEN <<g2>>
                 ELSE IF q.head = "" THEN <<>>
                 ELSE IF ~q.diffIndex THEN <<g3>>
                 ELSE IF ~q.cached THEN <<g4>>
                 ELSE <<>>
        g6 == getOthersFiles(IF q.head = "" THEN g2 ELSE g5, q)
        mockup(c) ==
            IF c.aborted THEN [g6 EXCEPT !.c = c]
            ELSE LET g7 == [g6 EXCEPT
                               !.c = c,
                               !.cache = insertRevisionFile(@, ZERO_SHA, c.files["rf"])]
                 IN [g7 EXCEPT !.commits =
                        updateWipCommit(@,
                            [sha |-> ZERO_SHA, parents |-> 1,
                             log |-> IF isNothingToCommit(g7)
                                     THEN "No local changes" ELSE "Local changes"])]
    IN IF early # <<>> THEN {early[1]}
       ELSE {mockup(c) : c \in fakeWorkDirRevFile(g6.c, g6.wd)}

\* a signal emitted or a step begun by processRevision(data)
Event(g, name, data) ==
    [g EXCEPT !.events =
        Append(@, [event |-> name,
                   wipFile |-> containsRevisionFile(g.cache, ZERO_SHA),
                   wipCommit |-> g.commits.wip # NoCommit,
                   data |-> data,
                   commits |-> Len(g.commits.rows)])]

\* the loop of processRevision going on with the next record after an
\* invalid one
decodeRecordsNoBreak(g, commits) ==
    LET RECURSIVE decode(_, _)
        decode(gg, k) ==
            IF k > Len(commits) THEN gg
            ELSE LET revision == CommitInfo(commits[k], k)
                 IN IF revision.valid
                    THEN decode([gg EXCEPT !.commits = insertCommitInfo(@, revision)], k + 1)
                    ELSE decode(gg, k + 1)
    IN decode(g, 1)

\* lines 1208-1216: the loop over the records, left at the first record
\* that is not valid
decodeRecords(g, commits) ==
    LET RECURSIVE decode(_, _)
        decode(gg, k) ==
            IF k > Len(commits) THEN gg
            ELSE LET revision == CommitInfo(commits[k], k)
                 IN IF revision.valid
                    THEN decode([gg EXCEPT !.commits = insertCommitInfo(@, revision)], k + 1)
                    ELSE gg
    IN decode(g, 1)

processRevision(g, bytes, q) ==
    LET commits == SplitAll(bytes, NUL)
        g0 == Event(g, "signalLoadingStarted", bytes)
        finish(gg) ==
            Event([decodeRecords(Event(gg, "decode", bytes), commits) EXCEPT
                      !.isLoading = FALSE],
                  "signalLoadingFinished", bytes)
    IN {IF g1.c.aborted THEN g1 ELSE finish(g1) : g1 \in updateWipRevision(g0, q)}

\* checkoutRevisions: the requestor is started; delivers tells whether it
\* will emit procDataReady (it does not when it fails or is cancelled)
checkoutRevisions(g, delivers) == [g EXCEPT !.requestor = delivers]

\* the value a member function returns, kept behind the queries it ran
Return(g, value) == Run(g, "return", value)

\* getBaseDir and getRefs: they write mWorkingDir and the reference map
getBaseDirAndRefs(g) == Run(Run(g, "getBaseDir", TRUE), "getRefs", TRUE)

\* loadRepository without the test of isLoading
loadRepositoryNoGuard(g, gitDirOk, delivers) ==
    LET g1 == [clearRevs(g) EXCEPT !.c = clearFileNames(@)]
        g2 == Run(g1, "git rev-parse --git-dir", gitDirOk)
        g3 == getBaseDirAndRefs([g2 EXCEPT !.isLoading = TRUE])
    IN IF ~gitDirOk THEN Return(g2, FALSE)
       ELSE Return(checkoutRevisions(g3, delivers), TRUE)

loadRepository(g, gitDirOk, delivers) ==
    IF g.isLoading THEN Return(g, FALSE)
    ELSE LET g1 == [clearRevs(g) EXCEPT !.c = clearFileNames(@)]
             g2 == Run(g1, "git rev-parse --git-dir", gitDirOk)
             g3 == getBaseDirAndRefs([g2 EXCEPT !.isLoading = TRUE])
         IN IF ~gitDirOk THEN Return(g2, FALSE)
            ELSE Return(checkoutRevisions(g3, delivers), TRUE)

runDiffTreeWithRenameDetection(g, q) ==
    LET g1 == Run(g, "git diff-tree -C", q.detect)
    IN IF q.detect THEN [g |-> g1, ok |-> TRUE]
       ELSE [g |-> Run(g1, "git diff-tree", q.plain), ok |-> q.plain]

getDiffFiles(g, s, diffToSha, allFiles, q) ==
    LET n == parentsCount(g.commits, s)
        mySha == IF n > 1 /\ diffToSha = "" /\ allFiles THEN "ALL_MERGE_FILES" \o s
                 ELSE IF diffToSha # "" /\ s # ZERO_SHA THEN s
                 ELSE ""
        r == runDiffTreeWithRenameDetection(g, q)
    IN IF n = 0 THEN {[g EXCEPT !.ret = EmptyRevisionFile]}
       ELSE IF containsRevisionFile(g.cache, mySha) THEN {[g EXCEPT !.ret = g.cache[mySha]]}
       ELSE IF r.ok THEN insertNewFiles(r.g, mySha, q.out)
       ELSE {[r.g EXCEPT !.ret = EmptyRevisionFile]}

\* the state of Git when a member function is entered
G ==
    [c |-> [Ctx EXCEPT !.log = <<>>], cache |-> mRevCache, commits |-> mCommits,
     wd |-> workingDirInfo, isLoading |-> isLoading, requestor |-> requestor,
     ran |-> <<>>, events |-> <<>>, ret |-> result]

\* the state a member function returns in: its locals are gone
SetG(g) ==
    /\ SetCtx([g.c EXCEPT !.files = [id \in InternTargets |-> EmptyRevisionFile],
                          !.fl = EmptyLoader, !.log = <<>>])
    /\ mRevCache' = g.cache
    /\ mCommits' = g.commits
    /\ workingDirInfo' = g.wd
    /\ isLoading' = g.isLoading
    /\ requestor' = g.requestor
    /\ ran' = g.ran
    /\ events' = g.events
    /\ result' = g.ret
    /\ pc' = IF g.c.aborted THEN "aborted" ELSE pc
    /\ UNCHANGED <<sha, buf, startPos, endPos, parNum>>

LoadRepository ==
    /\ pc = "idle"
    /\ \E gitDirOk \in BOOLEAN, delivers \in BOOLEAN :
          /\ (isLoading \/ ~gitDirOk) => ~delivers
          /\ isLoading => gitDirOk
          /\ SetG(loadRepository(G, gitDirOk, delivers))
    /\ clearedKeys' = IF isLoading THEN {} ELSE DOMAIN mRevCache
    /\ op' = "loadRepository"
    /\ CommitFrame

\* the slot of procDataReady
ProcessRevision ==
    /\ pc = "idle"
    /\ requestor
    /\ \E bytes \in Streams, q \in WipQueries :
          \E g \in processRevision([G EXCEPT !.requestor = NoData], bytes, q) :
             SetG(g)
    /\ clearedKeys' = {}
    /\ op' = "processRevision"
    /\ CommitFrame

UpdateWipRevision ==
    /\ pc = "idle"
    /\ \E q \in WipQueries :
          \E g \in updateWipRevision(G, q) : SetG(g)
    /\ clearedKeys' = {}
    /\ op' = "updateWipRevision"
    /\ CommitFrame

GetDiffFiles ==
    /\ pc = "idle"
    /\ \E r \in DiffRequests, q \in DiffQueries :
          \E g \in getDiffFiles(G, r.sha, r.diffToSha, r.allFiles, q) : SetG(g)
    /\ clearedKeys' = {}
    /\ op' = "getDiffFiles"
    /\ CommitFrame

NextLoad ==
    \/ LoadRepository
    \/ ProcessRevision
    \/ UpdateWipRevision
    \/ GetDiffFiles

SpecLoad == InitIntern /\ [][NextLoad]_vars

\* the event loop runs the slot of procDataReady once the requestor has
\* delivered, and a loadRepository call that is made is carried out
SpecLoadFair ==
    /\ SpecLoad
    /\ WF_vars(ProcessRevision)
    /\ WF_vars(LoadRepository)

(***************************************************************************)
(* commitFiles(selFiles, msg, amend, author).  A git command that writes   *)
(* the index is modelled by what it does to the set of paths updated in    *)
(* the index; a command that fails leaves the index as it was.  The state  *)
(* the commands work on is a record k: index, ran.                         *)
(***************************************************************************)
Range(seq) == {seq[i] : i \in 1..Len(seq)}

\* the outputs of "git diff-index HEAD": the changes of the working directory
CommitRecords ==
    {[st |-> "M", path |-> PathA], [st |-> "D", path |-> PathDA]}

DiffIndexText(ls) == JoinLines([i \in 1..Len(ls) |-> FastLine(ls[i].st, ls[i].path)])

\* the changes of the working directory, and those of them that are staged
StagedChanges ==
    UNION {{[changed |-> ls, staged |-> SelectSeq(ls, LAMBDA r : r \in S)] :
               S \in SUBSET Range(ls)} :
           ls \in {l \in LineLists(CommitRecords, MaxWipLines) :
                     \A i, j \in 1..Len(l) : l[i] = l[j] => i = j}}

\* the results of the steps of commitFiles: the first n steps succeed; a
\* step behind one that failed is not run
CommitOutcomes ==
    {[write |-> n >= 1, reset |-> n >= 2, rm |-> n >= 3, add |-> n >= 4,
      commit |-> n >= 5, rmBack |-> n >= 6, addBack |-> n >= 7] : n \in 0..7}

\* RevisionFile::statusCmp on an entry of the file
hasStatus(rf, i, flag) == \E r \in statusCmp(rf, i, flag) : ~r.abort /\ r.value

\* the paths of the entries of a RevisionFile, in order
pathsOf(c, rf) == [i \in 1..count(rf) |-> filePath(c, rf, i - 1)]

\* "git reset -- paths"
gitReset(k, paths, ok) ==
    [Run(k, "git reset", ok) EXCEPT !.index = IF ok THEN @ \ Range(paths) ELSE @]

\* "git rm --cached --ignore-unmatch -- paths": the deletions are staged
gitRmCached(k, paths, ok) ==
    [Run(k, "git rm --cached", ok) EXCEPT !.index = IF ok THEN @ \cup Range(paths) ELSE @]

\* "git add -- paths"
gitAdd(k, paths, ok) ==
    [Run(k, "git add", ok) EXCEPT !.index = IF ok THEN @ \cup Range(paths) ELSE @]

\* "git commit -F msgFile": what is staged is committed
gitCommit(k, ok) ==
    [Run(k, "git commit", ok) EXCEPT !.index = IF ok THEN {} ELSE @]

getOtherFiles(c, wipFiles, sel) ==
    LET all == pathsOf(c, wipFiles)
        notSelected(i) == all[i] \notin Range(sel) /\ hasStatus(wipFiles, i - 1, IN_INDEX)
        RECURSIVE collect(_)
        collect(i) == IF i = 0 THEN <<>>
                      ELSE IF notSelected(i) THEN Append(collect(i - 1), all[i])
                      ELSE collect(i - 1)
    IN collect(Len(all))

\* updateIndex: [k, ok], the state and the value returned
updateIndex(k, c, wipFiles, sel, rmOk, addOk) ==
    LET deleted(p) == LET idx == findFileIndex(c, wipFiles, p)
                      IN idx # -1 /\ hasStatus(wipFiles, idx, DELETED)
        toRemove == SelectSeq(sel, deleted)
        toAdd == SelectSeq(sel, LAMBDA p : ~deleted(p))
        k1 == IF toRemove # <<>> THEN gitRmCached(k, toRemove, rmOk) ELSE k
    IN IF toRemove # <<>> /\ ~rmOk THEN [k |-> k1, ok |-> FALSE]
       ELSE IF toAdd = <<>> THEN [k |-> k1, ok |-> TRUE]
       ELSE [k |-> gitAdd(k1, toAdd, addOk), ok |-> addOk]

\* the tail of the condition of commitFiles after "git reset": the index is
\* updated with the selection, the commit is run, the files not selected
\* are updated in the index again; each step is run if the one before it
\* succeeded
commitAndRestore(k, c, wipFiles, sel, notSel, o) ==
    LET u == updateIndex(k, c, wipFiles, sel, o.rm, o.add)
        committed == gitCommit(u.k, o.commit)
        back == updateIndex(committed, c, wipFiles, notSel, o.rmBack, o.addBack)
    IN IF ~u.ok THEN Return(u.k, FALSE)
       ELSE IF ~o.commit THEN Return(committed, FALSE)
       ELSE IF notSel = <<>> THEN Return(committed, TRUE)
       ELSE Return(back.k, back.ok)

commitFiles(k, c, wipFiles, sel, o) ==
    LET notSel == getOtherFiles(c, wipFiles, sel)
    IN IF ~o.write THEN Return(k, FALSE)
       ELSE IF notSel = <<>> THEN commitAndRestore(k, c, wipFiles, sel, notSel, o)
       ELSE IF ~o.reset THEN Return(gitReset(k, notSel, FALSE), FALSE)
       ELSE commitAndRestore(gitReset(k, notSel, TRUE), c, wipFiles, sel, notSel, o)

\* changes are made and staged outside the program, and the pseudo-commit
\* of the working directory is computed anew
RefreshWip ==
    /\ pc = "idle"
    /\ \E w \in StagedChanges :
          LET q == [status |-> TRUE, revParse |-> TRUE, head |-> "h",
                    diffIndex |-> TRUE, diffIndexOut |-> DiffIndexText(w.changed),
                    cached |-> TRUE, cachedOut |-> DiffIndexText(w.staged),
                    others |-> TRUE, othersOut |-> <<>>]
          IN /\ \E g \in updateWipRevision(G, q) : SetG(g)
             /\ gitIndex' = {r.path : r \in Range(w.staged)}
    /\ clearedKeys' = {}
    /\ op' = "updateWipRevision"
    /\ UNCHANGED <<selFiles, sessions>>

CommitFiles ==
    /\ pc = "idle"
    /\ containsRevisionFile(mRevCache, ZERO_SHA)
    /\ LET wipFiles == mRevCache[ZERO_SHA]
           all == pathsOf(Ctx, wipFiles)
       IN \E S \in SUBSET Range(all), o \in CommitOutcomes :
             LET sel == SelectSeq(all, LAMBDA p : p \in S)
                 k == commitFiles([index |-> gitIndex, ran |-> <<>>], Ctx, wipFiles, sel, o)
             IN /\ selFiles' = sel
                /\ gitIndex' = k.index
                /\ ran' = k.ran
    /\ op' = "commitFiles"
    /\ UNCHANGED <<mDirNames, mFileNames, mDirNamesMap, mFileNamesMap, files, fl,
                   mRevCache, workingDirInfo, result, pc, sha, buf, startPos, endPos,
                   parNum, oobRead, oobStatus, aborted, internLog, isLoading,
                   mCommits, requestor, events, clearedKeys, sessions>>

NextCommit ==
    \/ RefreshWip
    \/ CommitFiles

SpecCommit == InitIntern /\ [][NextCommit]_vars

(***************************************************************************)
(* Properties of the interner (checked under SpecIntern).                  *)
(***************************************************************************)
LastCall == internLog[Len(internLog)]

JustCalled(call) ==
    /\ Len(internLog') = Len(internLog) + 1
    /\ internLog'[Len(internLog')].call = call

\* the directory and the file part of a path: the path cut behind its last '/'
DirPart(name) == Left(name, LastIndexOf(name, "/") + 1)

FilePart(name) == MidFrom(name, LastIndexOf(name, "/") + 1)

NoClearBetween(i, j) ==
    \A k \in i..j : internLog[k].call # "clearFileNames"

\* C4: an appendFileName call with the empty string adds nothing to the
\* directory table, nothing to the file table and buffers no indices.
EmptyPathIsNoOp ==
    [][(JustCalled("appendFileName") /\ internLog'[Len(internLog')].name = <<>>)
        => /\ mDirNames' = mDirNames
           /\ mFileNames' = mFileNames
           /\ mDirNamesMap' = mDirNamesMap
           /\ mFileNamesMap' = mFileNamesMap
           /\ Len(fl'.rfDirs) = (IF fl'.rf = fl.rf THEN Len(fl.rfDirs) ELSE 0)
           /\ Len(fl'.rfNames) = (IF fl'.rf = fl.rf THEN Len(fl.rfNames) ELSE 0)]_vars

\* C8: two appendFileName calls with the same path and no clearFileNames
\* between them buffer the same (directory index, file index) pair; the
\* first grows each table by at most one string, the second grows neither.
InterningIdempotent ==
    /\ \A i, j \in 1..Len(internLog) :
          (/\ i < j
           /\ internLog[i].call = "appendFileName"
           /\ internLog[j].call = "appendFileName"
           /\ internLog[i].name = internLog[j].name
           /\ NoClearBetween(i, j))
          => /\ internLog[i].dir = internLog[j].dir
             /\ internLog[i].file = internLog[j].file
             /\ internLog[i].dirsAfter - internLog[i].dirsBefore \in {0, 1}
             /\ internLog[i].filesAfter - internLog[i].filesBefore \in {0, 1}
             /\ internLog[j].dirsAfter = internLog[j].dirsBefore
             /\ internLog[j].filesAfter = internLog[j].filesBefore
    /\ \A i \in 1..Len(internLog) :
          internLog[i].call = "appendFileName"
          => internLog[i].buffered = internLog[i].bufferedBefore + 1

\* a path interned twice, the first call adding its directory and its file
InterningIdempotentWitness ==
    \E i, j \in 1..Len(internLog) :
        /\ i < j
        /\ internLog[i].call = "appendFileName"
        /\ internLog[j].call = "appendFileName"
        /\ internLog[i].name = internLog[j].name
        /\ internLog[i].name = PathDA
        /\ NoClearBetween(i, j)
        /\ internLog[i].dirsAfter = internLog[i].dirsBefore + 1
        /\ internLog[i].filesAfter = internLog[i].filesBefore + 1
        /\ j > i + 1

NoDuplicates(table) ==
    \A i, j \in 1..Len(table) : table[i] = table[j] => i = j

MapAgrees(map, table) ==
    /\ DOMAIN map = {table[i] : i \in 1..Len(table)}
    /\ \A str \in DOMAIN map : map[str] + 1 \in 1..Len(table) /\ table[map[str] + 1] = str

LastClear ==
    LET clears == {k \in 1..Len(internLog) : internLog[k].call = "clearFileNames"}
    IN IF clears = {} THEN 0 ELSE Max(clears)

\* C9: each string occurs at most once in each table, the maps agree with
\* the tables, and every index handed out since the last clearFileNames
\* still denotes the string it was handed out for.
NameTablesInvariant ==
    /\ NoDuplicates(mDirNames)
    /\ NoDuplicates(mFileNames)
    /\ MapAgrees(mDirNamesMap, mDirNames)
    /\ MapAgrees(mFileNamesMap, mFileNames)
    /\ \A k \in (LastClear + 1)..Len(internLog) :
          /\ internLog[k].dir + 1 \in 1..Len(mDirNames)
          /\ mDirNames[internLog[k].dir + 1] = DirPart(internLog[k].name)
          /\ internLog[k].file + 1 \in 1..Len(mFileNames)
          /\ mFileNames[internLog[k].file + 1] = FilePart(internLog[k].name)

\* names interned, the tables cleared, and names interned again
NameTablesWitness ==
    /\ Len(internLog) >= 3
    /\ internLog[1].call = "appendFileName"
    /\ internLog[2].call = "clearFileNames"
    /\ internLog[3].call = "appendFileName"
    /\ internLog[1].name = PathDB
    /\ internLog[3].name = PathA
    /\ mDirNames = <<<<>>>>
    /\ mFileNames = <<PathA>>

(***************************************************************************)
(* Properties of the parser and of the synthesizer (checked under Spec).   *)
(***************************************************************************)
\* RevisionFile::extendedStatus(idx): empty past the end of extStatus
extendedStatus(rf, idx) ==
    IF idx < Len(rf.extStatus) THEN rf.extStatus[idx + 1] ELSE <<>>

\* The entries of RevisionFile id in state c, first to last.  While the
\* loader is bound to the file its paths are still in the loader's buffer.
EntriesIn(c, id) ==
    LET rf == c.files[id]
        bound == c.fl.rf = id
        n == IF bound THEN Len(c.fl.rfDirs) ELSE count(rf)
        path(i) == IF bound
                   THEN c.dirNames[c.fl.rfDirs[i] + 1] \o c.fileNames[c.fl.rfNames[i] + 1]
                   ELSE filePath(c, rf, i - 1)
    IN [i \in 1..n |->
          [path |-> path(i), status |-> rf.status[i],
           extStatus |-> extendedStatus(rf, i - 1), mergeParent |-> rf.mergeParent[i]]]

Entries(id) == EntriesIn(Ctx, id)

ParsedFile == IF pc = "wipCached" THEN "cachedFiles" ELSE "rf"

\* the next pass of parseDiffFormat parses this line
Parsing(line) ==
    /\ pc \in {"parse", "wipDiffIndex", "wipCached"}
    /\ endPos # -1
    /\ CurrentLine(buf, Locals) = line

CaseInfo(k) == k.orig \o Arrow \o k.dest \o <<" ", "(">> \o k.pct \o <<"%", ")">>

Done(operation) == pc = "done" /\ op = operation

\* C1: a slow-path line R<NN> o d appends exactly two entries, New at d and
\* then Deleted at o, both with extended status "o --> d (NN%)" and the
\* parent counter of the line.
RenameExpansion ==
    [][\A k \in RenameCases :
          Parsing(CaseLine(k))
          => Entries(ParsedFile)' =
                Entries(ParsedFile)
                \o <<[path |-> k.dest, status |-> {NEW_},
                      extStatus |-> CaseInfo(k), mergeParent |-> parNum],
                     [path |-> k.orig, status |-> {DELETED},
                      extStatus |-> CaseInfo(k), mergeParent |-> parNum]>>]_vars

\* C10: a slow-path line C<NN> o d appends exactly one entry, New at d with
\* extended status "o --> d (NN%)", and no Deleted entry for o.
CopyNonDeletion ==
    [][\A k \in CopyCases :
          Parsing(CaseLine(k))
          => Entries(ParsedFile)' =
                Entries(ParsedFile)
                \o <<[path |-> k.dest, status |-> {NEW_},
                      extStatus |-> CaseInfo(k), mergeParent |-> parNum]>>]_vars

\* a text of a modification and a copy, parsed: the copy added one entry
CopyNonDeletionWitness ==
    /\ Done("insertNewFiles")
    /\ \E k \in CopyCases :
          /\ buf = JoinLines(<<FastLine("M", PathA), CaseLine(k)>>)
          /\ count(result) = 2
          /\ result.status = <<{MODIFIED}, {NEW_}>>
          /\ filePath(Ctx, result, 1) = k.dest
          /\ extendedStatus(result, 1) = CaseInfo(k)

\* C3: no character is read at or past the end of the string it is read from.
NoReadPastLineEnd == ~oobRead

\* the records of a text: the pieces its newlines terminate
Records(text) ==
    LET ends == {i \in 1..Len(text) : text[i] = NL}
        RECURSIVE recs(_, _)
        recs(from, E) ==
            IF E = {} THEN <<>>
            ELSE LET e == Min(E)
                 IN <<SubSeq(text, from, e - 1)>> \o recs(e + 1, E \ {e})
    IN recs(1, ends)

\* what a record contributes when it is parsed on its own: path, status and
\* extended status of its entries; nothing when it does not begin with ':'
\* or ends before the path
RecordEntries(line) ==
    IF Len(line) < PathOffset \/ line[1] # ":" THEN <<>>
    ELSE LET c == CHOOSE r \in parseDiffFormatLine(FreshCtx, "rf", line, 1) : TRUE
             es == EntriesIn(c, "rf")
         IN [i \in 1..Len(es) |->
               [path |-> es[i].path, status |-> es[i].status,
                extStatus |-> es[i].extStatus]]

AllRecordEntries(text) ==
    LET rs == Records(text)
        RECURSIVE cat(_)
        cat(k) == IF k = 0 THEN <<>> ELSE cat(k - 1) \o RecordEntries(rs[k])
    IN cat(Len(rs))

\* C5: each newline-terminated record is handled separately: a record that
\* begins with ':' contributes its entries, any other record none, in the
\* order of the records (stated for the parses that read no character past
\* the end of a line).
RecordsParsedInOrder ==
    (Done("insertNewFiles") /\ ~oobRead)
    => LET es == EntriesIn([Ctx EXCEPT !.files = [id \in {"rf"} |-> result]], "rf")
       IN [i \in 1..Len(es) |->
             [path |-> es[i].path, status |-> es[i].status,
              extStatus |-> es[i].extStatus]]
          = AllRecordEntries(buf)

\* C6: once the final flush of a parse session has run, count() of each of
\* its RevisionFiles equals the length of its mergeParent.
EntriesMatchParents ==
    /\ Done("insertNewFiles")
       => /\ count(result) = Len(result.mergeParent)
          /\ sha \in DOMAIN mRevCache
          /\ mRevCache[sha] = result
    /\ Done("fakeWorkDirRevFile")
       => /\ count(result) = Len(result.mergeParent)
          /\ \A id \in {"rf", "cachedFiles"} :
                count(files[id]) = Len(files[id].mergeParent)

\* a synthesized file of a changed and an untracked path, one path staged
EntriesMatchParentsWitness ==
    /\ Done("fakeWorkDirRevFile")
    /\ Len(workingDirInfo.otherFiles) = 1
    /\ count(files["rf"]) = 3
    /\ count(files["cachedFiles"]) = 1

ExactlyModified(rf) == \A i \in 1..Len(rf.status) : rf.status[i] = {MODIFIED}

\* C7 as stated: onlyModified() is true exactly when every entry's status is
\* Modified and nothing else, for parsed and for synthesized files.
OnlyModifiedIff ==
    pc = "done" => (result.onlyModified <=> ExactlyModified(result))

\* C7 as amended: the equivalence holds for the files insertNewFiles parses;
\* the synthesized working-directory file has onlyModified() false always.
OnlyModifiedParsedIff ==
    /\ Done("insertNewFiles") => (result.onlyModified <=> ExactlyModified(result))
    /\ Done("fakeWorkDirRevFile") => ~result.onlyModified

\* a parsed file of a modification and a copy: onlyModified() is off
OnlyModifiedWitness ==
    /\ Done("insertNewFiles")
    /\ result.status = <<{MODIFIED}, {NEW_}>>
    /\ ~result.onlyModified

\* C2: a baseline entry whose path is staged with status Conflict carries
\* Conflict and In-Index in the synthesized file, wherever the two entries
\* stand in their lists (stated for the runs in which statusCmp is given
\* indices of staged entries only).
StagedConflictIsMerged ==
    (Done("fakeWorkDirRevFile") /\ ~oobStatus)
    => LET cachedFiles == files["cachedFiles"]
           baseline == count(result) - Len(workingDirInfo.otherFiles)
       IN \A i \in 0..(baseline - 1), j \in 0..(count(cachedFiles) - 1) :
             (/\ filePath(Ctx, result, i) = filePath(Ctx, cachedFiles, j)
              /\ CONFLICT \in cachedFiles.status[j + 1])
             => {CONFLICT, IN_INDEX} \subseteq result.status[i + 1]

(***************************************************************************)
(* Further properties of the parser (checked under Spec).                  *)
(***************************************************************************)
\* a single-parent change line that takes the slow path and whose remainder
\* does not hold three fields (fields as QString::split counts them with
\* SkipEmptyParts)
MalformedSlow(line) ==
    /\ Len(line) > TabOffset
    /\ line[1] = ":"
    /\ line[2] # ":"
    /\ line[TabOffset + 1] # TAB
    /\ Len(SplitSkipEmpty(MidFrom(line, StatusOffset), TAB)) # 3

\* the record of buf that follows the line being parsed
HasNextRecord == IndexOf(buf, NL, endPos + 1) # -1

NextRecord == Mid(buf, endPos + 1, IndexOf(buf, NL, endPos + 1) - endPos - 1)

NonChangeBefore(text, pos) ==
    LET rs == Records(SubSeq(text, 1, pos))
    IN Cardinality({k \in 1..Len(rs) : rs[k] = <<>> \/ rs[k][1] # ":"})

\* C12: while parseDiffFormat runs, the parent counter is 1 plus the number
\* of the lines before the current position that do not begin with ':'
\* (the value every entry appended next records as its mergeParent); stated
\* for the parses that read no character past the end of a line.
ParentCounterCounts ==
    (/\ pc \in {"parse", "wipDiffIndex", "wipCached"}
     /\ ~oobRead)
    => parNum = 1 + NonChangeBefore(buf, startPos)

\* the reference parser of a single-parent record: the line is cut at its
\* first tab, the status is the character before the tab, the path the text
\* behind it
RefTab(line) == IndexOf(line, TAB, 0)

RefStatus(line) == line[RefTab(line)]

RefPath(line) == MidFrom(line, RefTab(line) + 1)

FastPathLine(line) ==
    /\ Len(line) > TabOffset
    /\ line[1] = ":"
    /\ line[2] # ":"
    /\ line[TabOffset + 1] = TAB

\* C17: for a single-parent change line with a tab at the fixed offset the
\* fast path appends one entry whose path and status are those the
\* reference parser yields.
FastPathEquivalence ==
    [][(/\ pc \in {"parse", "wipDiffIndex", "wipCached"}
        /\ endPos # -1
        /\ FastPathLine(CurrentLine(buf, Locals)))
       => LET line == CurrentLine(buf, Locals)
          IN Entries(ParsedFile)' =
                Entries(ParsedFile)
                \o <<[path |-> RefPath(line),
                      status |-> setStatus(EmptyRevisionFile, RefStatus(line)).status[1],
                      extStatus |-> <<>>,
                      mergeParent |-> parNum]>>]_vars

\* an addition parsed by the fast path
FastPathEquivalenceWitness ==
    /\ Done("insertNewFiles")
    /\ buf = JoinLines(<<FastLine("A", PathDB)>>)
    /\ count(result) = 1
    /\ filePath(Ctx, result, 0) = PathDB
    /\ result.status = <<{NEW_}>>

(***************************************************************************)
(* Further properties of the synthesizer (checked under Spec).             *)
(***************************************************************************)
PathsOf(es) == [i \in 1..Len(es) |-> es[i].path]

ResultEntries ==
    EntriesIn([Ctx EXCEPT !.files = [id \in {"rf"} |-> result], !.fl = EmptyLoader], "rf")

StagedPaths ==
    {filePath(Ctx, files["cachedFiles"], j) : j \in 0..(count(files["cachedFiles"]) - 1)}

\* the synthesized file holds the entries of the diff-index text and then one
\* entry with mergeParent 1 for each untracked path, in list order, each
\* status satisfying Good; onlyModified is off
UntrackedEntries(Good(_, _)) ==
    Done("fakeWorkDirRevFile")
    => LET others == workingDirInfo.otherFiles
           es == ResultEntries
           n == Len(es) - Len(others)
       IN /\ n >= 0
          /\ SubSeq(PathsOf(es), 1, n) = PathsOf(AllRecordEntries(workingDirInfo.diffIndex))
          /\ \A k \in 1..Len(others) :
                /\ es[n + k].path = others[k]
                /\ es[n + k].mergeParent = 1
                /\ Good(es[n + k].status, others[k])
          /\ ~result.onlyModified

StatusIsUnknown(status, path) == status = {UNKNOWN}

StatusHasUnknown(status, path) ==
    /\ UNKNOWN \in status
    /\ status \subseteq {UNKNOWN, IN_INDEX, CONFLICT}
    /\ path \notin StagedPaths => status = {UNKNOWN}
    /\ path \in StagedPaths => IN_INDEX \in status

InIndexIffStaged ==
    [][(pc = "wipCached" /\ endPos = -1 /\ pc' = "done")
       => LET base == Entries("rf")
              staged == Entries("cachedFiles")
              merged == Entries("rf")'
          IN /\ Len(merged) = Len(base)
             /\ \A i \in 1..Len(base) :
                   LET isStaged == \E j \in 1..Len(staged) : staged[j].path = base[i].path
                   IN /\ IN_INDEX \in merged[i].status <=> isStaged
                      /\ ~isStaged => merged[i] = base[i]]_vars

(***************************************************************************)
(* Further properties of the loader (checked under SpecIntern).            *)
(***************************************************************************)
\* the buffer of the loader holds what the latest appendFileName calls
\* buffered, all of them calls for the RevisionFile the loader is bound to
BufferOwned(log, loader) ==
    LET a == SelectSeq(log, LAMBDA e : e.call = "appendFileName")
        n == Len(loader.rfDirs)
    IN /\ Len(loader.rfNames) = n
       /\ n <= Len(a)
       /\ loader.rf = NoFile => n = 0
       /\ \A k \in 1..n :
             /\ a[Len(a) - n + k].target = loader.rf
             /\ a[Len(a) - n + k].dir = loader.rfDirs[k]
             /\ a[Len(a) - n + k].file = loader.rfNames[k]

\* C20: the buffer only holds indices of the bound RevisionFile; an
\* appendFileName call for another target first writes the buffered pairs,
\* in append order, into the storage of the file bound before and empties
\* the buffer, then rebinds the loader and buffers the new pair.
LoaderRebinding ==
    [][/\ BufferOwned(internLog', fl')
       /\ JustCalled("appendFileName")
          => LET e == internLog'[Len(internLog')]
             IN IF fl.rf = e.target
                THEN /\ files' = files
                     /\ fl' = [fl EXCEPT !.rfDirs = Append(@, e.dir),
                                         !.rfNames = Append(@, e.file)]
                ELSE /\ fl' = [rf |-> e.target, rfDirs |-> <<e.dir>>,
                               rfNames |-> <<e.file>>]
                     /\ \A id \in DOMAIN files : id # fl.rf => files'[id] = files[id]
                     /\ fl.rf # NoFile
                        => /\ count(files'[fl.rf]) = Len(fl.rfDirs)
                           /\ \A i \in 0..(Len(fl.rfDirs) - 1) :
                                 /\ dirAt(files'[fl.rf], i) = fl.rfDirs[i + 1]
                                 /\ nameAt(files'[fl.rf], i) = fl.rfNames[i + 1]]_vars

\* two names buffered for one file, then a name appended for the other
LoaderRebindingWitness ==
    /\ Len(internLog) = 3
    /\ \A k \in 1..3 : internLog[k].call = "appendFileName"
    /\ internLog[1].target = "rf"
    /\ internLog[2].target = "rf"
    /\ internLog[3].target = "cachedFiles"
    /\ internLog[1].name = PathDA
    /\ internLog[2].name = PathDB
    /\ fl.rf = "cachedFiles"
    /\ Len(fl.rfDirs) = 1
    /\ count(files["rf"]) = 2
    /\ filePath(Ctx, files["rf"], 0) = PathDA
    /\ filePath(Ctx, files["rf"], 1) = PathDB

(***************************************************************************)
(* Properties of the repository load (checked under SpecLoad).             *)
(***************************************************************************)
\* the longest prefix of the records that are all valid, as commits
ValidPrefix(records) ==
    LET n == Max({k \in 0..Len(records) :
                    \A i \in 1..k : CommitInfo(records[i], i).valid})
    IN [i \in 1..n |-> CommitInfo(records[i], i)]

Returned(operation) == pc = "idle" /\ op = operation

\* C13: when processRevision has returned, the commits of the cache are the
\* records of the stream up to the first one that is not valid, in the
\* order of the stream, and no record behind that one.
DecodedPrefix ==
    (Returned("processRevision") /\ events # <<>>)
    => mCommits.rows = ValidPrefix(SplitAll(events[1].data, NUL))

\* a valid record, an invalid one and a valid one: the first is in the cache
DecodedPrefixWitness ==
    /\ Returned("processRevision")
    /\ Len(events) = 3
    /\ events[1].data = JoinNul(<<<<"c1">>, <<"x">>, <<"c2">>>>)
    /\ mCommits.rows = <<CommitInfo(<<"c1">>, 1)>>
    /\ ~isLoading

\* C14: the RevisionFile and the commit of the working directory are in the
\* cache when signalLoadingStarted is emitted and when the decoding of the
\* commit records begins.
WipBeforeDecoding ==
    \A k \in 1..Len(events) :
        events[k].event \in {"signalLoadingStarted", "decode"}
        => events[k].wipFile /\ events[k].wipCommit

\* C15: no key that a clearRevs removed is in the cache when the member
\* function that cleared returns.
CacheCleared ==
    \A id \in clearedKeys : ~containsRevisionFile(mRevCache, id)

\* a load that cleared a cache holding the working-directory file and the
\* files of a merge
CacheClearedWitness ==
    /\ Returned("loadRepository")
    /\ {ZERO_SHA, "ALL_MERGE_FILESc2"} \subseteq clearedKeys
    /\ mCommits = NoCommits

\* a query of the member function failed; a diff-tree query with rename
\* detection that failed and whose retry succeeded is not counted
QueryFailed(r) ==
    \E k \in 1..Len(r) :
        /\ r[k].cmd # "return"
        /\ ~r[k].ok
        /\ ~(/\ r[k].cmd = "git diff-tree -C"
             /\ \E j \in (k + 1)..Len(r) : r[j].cmd = "git diff-tree" /\ r[j].ok)

\* C16: a getDiffFiles or updateWipRevision call (processRevision's call of
\* it included) one of whose queries failed leaves the revision files of
\* the cache and the interner tables as they were.
FailedQueryLeavesNoTrace ==
    [][(/\ op' \in {"getDiffFiles", "updateWipRevision", "processRevision"}
        /\ QueryFailed(ran'))
       => /\ mRevCache' = mRevCache
          /\ mDirNames' = mDirNames
          /\ mFileNames' = mFileNames
          /\ mDirNamesMap' = mDirNamesMap
          /\ mFileNamesMap' = mFileNamesMap]_vars

(***************************************************************************)
(* Properties of the loader's flush (checked under SpecIntern).            *)
(***************************************************************************)
\* C21: a flushFileNames call that follows a flushFileNames call leaves the
\* packed storage of every target, the buffers of the loader and its
\* binding as the first call left them, and a call on a loader bound to no
\* RevisionFile changes nothing.
FlushIdempotent ==
    [][op' = "flushFileNames"
       => /\ flushFileNames(Ctx').files = files'
          /\ flushFileNames(Ctx').fl = fl'
          /\ fl.rf = NoFile
             => UNCHANGED <<files, fl, mDirNames, mFileNames,
                            mDirNamesMap, mFileNamesMap>>]_vars

\* a flush has packed the two entries buffered for rf and unbound the loader
FlushIdempotentWitness ==
    /\ op = "flushFileNames"
    /\ fl = EmptyLoader
    /\ Len(internLog) = 2
    /\ \A k \in 1..2 : internLog[k].call = "appendFileName" /\ internLog[k].target = "rf"
    /\ Len(files["rf"].pathsIdx) = 4

(***************************************************************************)
(* Properties of interleaved parse sessions (checked under SpecSessions).   *)
(***************************************************************************)
\* the names a session appended to the target, in order
NamesFor(s, target) ==
    LET IsFor(call) == call.target = target
        mine == SelectSeq(sessions[s].made, IsFor)
    IN [i \in 1..Len(mine) |-> mine[i].name]

\* C22: a session that has returned, whatever the order its steps and the
\* steps of the other session took, has in each of its RevisionFiles one
\* entry for each record of its own text, in order, and the indices of the
\* entry give the path of the record through the shared tables.
SessionsIsolated ==
    \A s \in SessionNames :
        sessions[s].returned
        => \A j \in 1..Len(SessionTargets[s]) :
              LET target == SessionTargets[s][j]
                  names == NamesFor(s, target)
              IN /\ count(files[target]) = Len(names)
                 /\ \A i \in 0..(Len(names) - 1) :
                       /\ dirAt(files[target], i) \in 0..(Len(mDirNames) - 1)
                       /\ nameAt(files[target], i) \in 0..(Len(mFileNames) - 1)
                       /\ filePath(Ctx, files[target], i) = names[i + 1]

\* both sessions have returned after their records were handled in turn
SessionsIsolatedWitness ==
    /\ \A s \in SessionNames : sessions[s].returned /\ Len(sessions[s].made) = 2
    /\ Len(internLog) = 4
    /\ internLog[1].target = "insertNewFiles.rf"
    /\ internLog[2].target = "rf"
    /\ internLog[3].target = "insertNewFiles.rf"
    /\ internLog[4].target = "cachedFiles"

(***************************************************************************)
(* Properties of commitFiles (checked under SpecCommit).                   *)
(***************************************************************************)
\* the paths of the entries of the file that carry the flag
PathsWith(c, rf, flag) ==
    {filePath(c, rf, i) : i \in {j \in 0..(count(rf) - 1) : flag \in rf.status[j + 1]}}

\* C23: when commitFiles returns, every file that was In-Index in the
\* RevisionFile of the working directory and was not selected is updated
\* in the index.
CommitRestoresIndex ==
    [][op' = "commitFiles"
       => \A p \in PathsWith(Ctx, mRevCache[ZERO_SHA], IN_INDEX) \ Range(selFiles') :
             p \in gitIndex']_vars

(***************************************************************************)
(* Properties of the merge step of fakeWorkDirRevFile (checked under Spec). *)
(***************************************************************************)
\* C24: no statusCmp call of the merge step of fakeWorkDirRevFile is given
\* an index that is not the position of an entry of the staged file.
StagedIndexInBounds == op = "fakeWorkDirRevFile" => ~oobStatus

(***************************************************************************)
(* Properties of the cache keys (checked under SpecLoad).                  *)
(***************************************************************************)
\* C25: every key under which the cache holds a RevisionFile is the zero
\* id, the id of a commit, or ALL_MERGE_FILES followed by the id of a
\* commit: getDiffFiles never inserts under the empty key.
DiffKeysWellFormed ==
    \A key \in DOMAIN mRevCache :
        \/ key = ZERO_SHA
        \/ key \in {"c1", "c2"}
        \/ key \in {"ALL_MERGE_FILES" \o id : id \in {"c1", "c2"}}

(***************************************************************************)
(* Properties of a load in progress (checked under SpecLoad).              *)
(***************************************************************************)
\* C26: a loadRepository call made while isLoading is set returns false
\* without running a query or a step of the load, and leaves the revision
\* cache, the commits, the interner tables, the working-directory info,
\* isLoading and the requestor as they were.
SingleLoad ==
    [][(isLoading /\ op' = "loadRepository")
       => /\ ran' = <<[cmd |-> "return", ok |-> FALSE]>>
          /\ UNCHANGED <<mRevCache, mCommits, mDirNames, mFileNames, mDirNamesMap,
                         mFileNamesMap, workingDirInfo, isLoading, requestor>>]_vars

\* a loadRepository call was turned down while a load was in progress, and
\* the cache and the tables hold what updateWipRevision put there
SingleLoadWitness ==
    /\ Returned("loadRepository")
    /\ isLoading
    /\ ran = <<[cmd |-> "return", ok |-> FALSE]>>
    /\ containsRevisionFile(mRevCache, ZERO_SHA)
    /\ mFileNames # <<>>

(***************************************************************************)
(* Progress of a load (checked under SpecLoadFair).                        *)
(***************************************************************************)
\* C27: a load that has begun finishes: once isLoading is set it is reset
\* at some later time.
LoadFinishes == isLoading ~> ~isLoading

(***************************************************************************)
(* Properties of the cached indices (checked under SpecLoad).              *)
(***************************************************************************)
\* the paths a cached RevisionFile can have been parsed from: a file of the
\* working directory from the records of "git diff-index" and the
\* untracked files behind them, a file of a commit from the records of
\* "git diff-tree"
ParsedPaths(key) ==
    IF key = ZERO_SHA
    THEN {<<>>, <<PathA>>, <<PathU>>, <<PathA, PathU>>}
    ELSE {<<PathA>>}

\* C28: every directory index and file index of a RevisionFile held in the
\* cache is a position of the name tables, and the paths the indices give
\* are the paths the file was parsed from.
CachedIndicesValid ==
    \A key \in DOMAIN mRevCache :
        LET rf == mRevCache[key]
        IN /\ Len(rf.pathsIdx) = 2 * count(rf)
           /\ \A i \in 0..(count(rf) - 1) :
                 /\ dirAt(rf, i) \in 0..(Len(mDirNames) - 1)
                 /\ nameAt(rf, i) \in 0..(Len(mFileNames) - 1)
           /\ pathsOf(Ctx, rf) \in ParsedPaths(key)

\* after a load that cleared cache and tables and decoded commits, the
\* cache holds a file of the working directory and the files of a merge
CachedIndicesValidWitness ==
    /\ {ZERO_SHA, "ALL_MERGE_FILESc2"} \subseteq DOMAIN mRevCache
    /\ pathsOf(Ctx, mRevCache[ZERO_SHA]) = <<PathA, PathU>>
    /\ count(mRevCache["ALL_MERGE_FILESc2"]) = 1
    /\ mCommits.rows # <<>>
    /\ Len(mFileNames) = 2

====
